---- MODULE Spec2Model ----
(***************************************************************************)
(* Watched-history subsystem of YouTube Commander.                         *)
(*                                                                         *)
(* Two versions of the subsystem live in the repository:                   *)
(*   - the legacy content script (src/unnamed/part_002): IndexedDB store,  *)
(*     play-time watcher, container scanner, import / sync / clear;        *)
(*   - the refactored module (src/unnamed/part_008), whose definitions     *)
(*     carry the suffix V2 here;                                           *)
(* and the popup (src/src/popup/popup.js) imports ids in chunks through    *)
(* an injected script.                                                     *)
(*                                                                         *)
(* IndexedDB runs transactions with overlapping scope in the order they    *)
(* were created, on every connection of the database.  The effect of a     *)
(* request on the store is therefore applied at the step that makes the    *)
(* request; the callbacks (onsuccess / onerror) that resume the caller     *)
(* are later steps.                                                        *)
(***************************************************************************)
EXTENDS Integers, Sequences, FiniteSets, TLC

VARIABLES
    store,          \* records of object store 'watchedVideos'
    now,            \* Date.now()
    db,             \* part_002 `db` is a connection (TRUE) or null (FALSE)
    isInitialized,  \* part_002 `isInitialized`
    calls,          \* in-flight asynchronous calls that wait for (re)initialisation
    lastImport,     \* the last finished import: its list, the ids before it, its count
    addLog,         \* per id, the timestamps of the last addToWatchedHistory writes
    popup,          \* the popup's injected chunked import
    history,        \* which history variables this specification records
    url,            \* the video id of window.location.href, or NoId
    currentTime,    \* where the main and the feed video were last put (kept for `since`)
    tracked,        \* the main video carries data-yt-commander-tracked
    listeners,      \* the timeupdate listeners (timeUpdateHandler closures)
    videoObservers, \* ids whose handleVideoPlayback left a videoObserver connected
    processedVideos,\* part_002 `processedVideos`
    putCalls,       \* per id, how often a timeUpdateHandler called addToWatchedHistory
    checked,        \* containers that carry data-watched-checked
    observed,       \* containers a shortsObserver observes
    markers,        \* per thumbnail, the number of .yt-commander-watched children
    scans,          \* the runs of markWatchedVideosOnPage that are suspended
    present,        \* the item containers in the document
    status,         \* the popup's status message (showStatus)
    file,           \* the file picked for the popup's import (event.target.files[0])
    videoIdCache,   \* part_002 `videoIdCache`: pairs <<url, id>>
    lastLookup,     \* the last call of getCachedVideoId: its url and what it returned
    lastOp,         \* the last store operation that met a failing request
    pageTimer,      \* window.ytCommanderMarkingTimeout is pending
    navigationTimeout, \* handlePageUpdate's navigationTimeout is pending
    lastProcessed,  \* handlePageUpdate's lastProcessedUrl, and whether it is under 1 s old
    burstScans,     \* scans the timers started since a trigger last found no timer pending
    watchedVideosCache, \* part_008 `watchedVideosCache`: ids
    cleared,        \* whether the last write to the store was a successful clear, and what was cached then
    countRequest,   \* the last GET_WATCHED_COUNT request: handler, response, resolved value
    initializationRetries, \* part_002 `initializationRetries`
    initTimers,     \* pending setTimeout(initialize, 1000) timers
    opens,          \* calls of indexedDB.open that failed since the last one that succeeded
    hookSets,       \* runs of setupNavigationObserver that installed their listeners
    connections,    \* connections opened and not closed
    exported,       \* the text file of the last export, and whether it was imported again
    historyEnabled, \* content-isolated.js `currentSettings.historyEnabled`
    observer,       \* part_008 `observer` is connected
    trackTimers,    \* ids for which trackCurrentVideo's setTimeout(addToWatchedHistory) is pending
    syncInProgress, \* background.js `syncInProgress`
    syncRuns,       \* the calls of performDriveSync that passed its guard: where each stands
    syncReturned,   \* the last call of performDriveSync returned at its guard
    timeout,        \* createThrottledObserver's `timeout`: the time its timer is due, or Undefined
    unanswered,     \* the times of the mutations observed since the last callback
    callbacks,      \* the times of the last two invocations of the throttled callback
    quality,        \* setVideoQuality's argument, the player's quality levels, the quality applied
    countedVideos,  \* part_006 `countedVideos`
    counter,        \* part_006 `counter`
    counterLabel,   \* the text of the counter label, or Undefined when there is no label
    shortsStorage,  \* what chrome.storage.local holds under STORAGE_KEY, or Undefined
    shortsLoading,  \* the runs of initShortsCounter that wait for loadCounterData
    navObserver     \* part_006 `observer`: whether it observes, and its `lastUrl`

storeVars == <<store, now, db, isInitialized>>
apiVars == <<calls, lastImport, addLog, popup, history>>
watchVars == <<url, currentTime, tracked, listeners, videoObservers, processedVideos, putCalls>>
scanVars == <<checked, observed, markers, scans, present>>
popupVars == <<status, file>>
cacheVars == <<videoIdCache, lastLookup>>
timerVars == <<pageTimer, navigationTimeout, lastProcessed, burstScans>>
moduleVars == <<watchedVideosCache, cleared, countRequest>>
initVars == <<initializationRetries, initTimers, opens, hookSets, connections>>
featureVars == <<historyEnabled, observer, trackTimers>>
syncVars == <<syncInProgress, syncRuns, syncReturned>>
throttleVars == <<timeout, unanswered, callbacks>>
shortsVars == <<countedVideos, counter, counterLabel, shortsStorage, shortsLoading, navObserver>>
afterSync == <<throttleVars, quality, shortsVars>>
afterFeature == <<syncVars, afterSync>>
extraVars == <<featureVars, afterFeature>>
auxVars == <<popupVars, cacheVars, lastOp, timerVars, moduleVars, initVars, exported, extraVars>>
vars == <<store, now, db, isInitialized, calls, lastImport, addLog, popup, history,
          url, currentTime, tracked, listeners, videoObservers, processedVideos, putCalls,
          checked, observed, markers, scans, present,
          status, file, videoIdCache, lastLookup, lastOp,
          pageTimer, navigationTimeout, lastProcessed, burstScans,
          watchedVideosCache, cleared, countRequest,
          initializationRetries, initTimers, opens, hookSets, connections, exported,
          historyEnabled, observer, trackTimers,
          syncInProgress, syncRuns, syncReturned,
          timeout, unanswered, callbacks, quality,
          countedVideos, counter, counterLabel, shortsStorage, shortsLoading, navObserver>>

(***************************************************************************)
(* Bounds                                                                  *)
(***************************************************************************)
MaxClock == 2
MaxCalls == 1
chunkSize == 2

Ids == {"a", "b"}
NoId == ""
NoTimestamp == -1

Slots == 1..MaxCalls

MaxSyncs == 2

MaxLoads == 2

MaxElapsed == 7

Delay == 2

Runs == 1..MaxSyncs

(***************************************************************************)
(* The object store.  createObjectStore(STORE_NAME, {keyPath: 'videoId'}): *)
(* a put replaces the record that has the same key.                        *)
(***************************************************************************)
Record(videoId, timestamp) == [videoId |-> videoId, timestamp |-> timestamp]

EntriesFor(s, id) == {r \in s : r.videoId = id}

StoredIds(s) == {r.videoId : r \in s}

\* a put that appends without replacing the record of the same key
StorePutNoReplace(s, rec) == s \cup {rec}

\* a put that keeps the record already stored under the key
StorePutKeepFirst(s, rec) ==
    IF EntriesFor(s, rec.videoId) # {} THEN s ELSE s \cup {rec}

StorePut(s, rec) == {r \in s : r.videoId # rec.videoId} \cup {rec}

getAll(s) == s

count(s) == Cardinality(s)

(***************************************************************************)
(* Import candidates: a line of an import file, or an element of the list  *)
(* handed to importWatchedHistory.  `core` is the text without the         *)
(* surrounding whitespace, `ws` tells whether whitespace surrounds it.     *)
(***************************************************************************)
Cand(core, ws) == [core |-> core, ws |-> ws]

Trim(c) == c.core

ImportLists ==
    << <<Cand("a", FALSE), Cand("b", FALSE), Cand("a", FALSE)>>,
       <<Cand(NoId, TRUE), Cand("b", TRUE)>> >>

PopupLists ==
    << <<"a", "b", "a">>,
       <<"b">> >>

SyncLists ==
    << <<Record("a", 1), Record("b", NoTimestamp)>>,
       <<Record("b", 1), Record("b", 0)>> >>

SeqToSet(q) == {q[i] : i \in 1..Len(q)}

\* the ids an import list asks for: non-empty after trimming
CandidateIds(list) == {Trim(list[i]) : i \in 1..Len(list)} \ {NoId}

(***************************************************************************)
(* Import files.  A file is the sequence of its lines; IdLength is the     *)
(* length of a line's text after trimming.  "a" and "b" are ids of 11      *)
(* characters, "t" has 10, "s" has 9.                                      *)
(***************************************************************************)
Header == "Video ID"

IdLength(id) ==
    CASE id = "a" -> 11 [] id = "b" -> 11 [] id = "t" -> 10 [] id = "s" -> 9
      [] id = Header -> 8 [] OTHER -> 0

Files ==
    << <<Cand("a", TRUE), Cand("t", FALSE), Cand("s", FALSE)>>,
       <<Cand("s", FALSE), Cand(NoId, TRUE)>>,
       <<Cand(Header, FALSE), Cand("b", FALSE)>>,
       <<Cand(NoId, TRUE)>> >>

FileNames == {"txt", "csv"}

\* id && id.length >= 10 && id.length <= 12
AcceptTxt(id) == id # NoId /\ IdLength(id) >= 10 /\ IdLength(id) <= 12

\* id && id.length === 11
AcceptCsv(id) == id # NoId /\ IdLength(id) = 11

\* line.trim() is not empty
NonBlank(line) == Trim(line) # NoId

Trimmed(lines) == [i \in 1..Len(lines) |-> Trim(lines[i])]

\* content.split('\n').map(line => line.trim()).filter(...)
parseTxt(lines) ==
    [thrown |-> FALSE, videoIds |-> SelectSeq(Trimmed(lines), AcceptTxt)]

\* lines[0].includes('Video ID') throws on a file without a non-blank line;
\* the first column of a line is its text here
parseCsv(lines) ==
    LET nonBlank == SelectSeq(lines, NonBlank) IN
    IF Len(nonBlank) = 0 THEN [thrown |-> TRUE, videoIds |-> <<>>]
    ELSE LET dataLines == IF Trim(nonBlank[1]) = Header THEN Tail(nonBlank) ELSE nonBlank
         IN [thrown |-> FALSE, videoIds |-> SelectSeq(Trimmed(dataLines), AcceptCsv)]

parse(name, lines) == IF name = "csv" THEN parseCsv(lines) ELSE parseTxt(lines)

\* the lists the popup hands to its injected import: PopupLists, then what
\* parsing makes of each file read as txt and as csv
ParsedLists ==
    [i \in 1..(2 * Len(Files)) |->
        parse(IF i % 2 = 1 THEN "txt" ELSE "csv", Files[(i + 1) \div 2]).videoIds]

InjectedLists == PopupLists \o ParsedLists

InjectedIndex(name, f) == Len(PopupLists) + 2 * (f - 1) + (IF name = "txt" THEN 1 ELSE 2)

\* the lists importWatchedHistory is called with: ImportLists, then the
\* lines of each file
ContentLists == ImportLists \o Files

(***************************************************************************)
(* importWatchedHistory: one readwrite transaction; getAll first, then a  *)
(* put of {videoId: trimmedId} per candidate; the count is taken against   *)
(* the ids read by getAll.                                                 *)
(***************************************************************************)
RECURSIVE importLoop(_, _, _, _, _)
importLoop(list, i, s, existingIds, importCount) ==
    IF i > Len(list) THEN [store |-> s, importCount |-> importCount]
    ELSE LET videoId == list[i] IN
         IF videoId.core # NoId
         THEN importLoop(list, i + 1,
                         StorePut(s, Record(Trim(videoId), NoTimestamp)),
                         existingIds,
                         IF Trim(videoId) \notin existingIds
                         THEN importCount + 1 ELSE importCount)
         ELSE importLoop(list, i + 1, s, existingIds, importCount)

importWatchedHistory(s, list) ==
    importLoop(list, 1, s, StoredIds(getAll(s)), 0)

(***************************************************************************)
(* updateWatchedHistoryFromSync: one readwrite transaction, a put of each  *)
(* video of the list as it is.                                             *)
(***************************************************************************)
RECURSIVE syncLoop(_, _, _)
syncLoop(videos, i, s) ==
    IF i > Len(videos) THEN s
    ELSE syncLoop(videos, i + 1, StorePut(s, videos[i]))

\* a sync that puts the received entries in place of the store
replaceWithSync(s, videos) == SeqToSet(videos)

updateWatchedHistoryFromSync(s, videos) == syncLoop(videos, 1, s)

(***************************************************************************)
(* The popup's processChunk: one readwrite transaction per chunk, a put of *)
(* {videoId, timestamp: Date.now()} per id.  `ok` is the number of puts    *)
(* that succeed before one fails; a request error that is not prevented    *)
(* aborts the transaction, so that a chunk with a failing put leaves the   *)
(* store as it was, while the onsuccess callbacks that ran were counted.   *)
(***************************************************************************)
Slice(q, from, n) ==
    [i \in 1..(IF Len(q) - from < n THEN (IF Len(q) > from THEN Len(q) - from ELSE 0) ELSE n)
        |-> q[from + i]]

RECURSIVE chunkPuts(_, _, _, _)
chunkPuts(chunk, i, s, t) ==
    IF i > Len(chunk) THEN s
    ELSE chunkPuts(chunk, i + 1, StorePut(s, Record(chunk[i], t)), t)

(***************************************************************************)
(* Ghost bookkeeping for addToWatchedHistory: the timestamps of the last   *)
(* two writes it made for an id, forgotten when another operation writes   *)
(* or clears that id.                                                      *)
(***************************************************************************)
LogAdd(log, id, t) ==
    IF history # "add" THEN log
    ELSE [log EXCEPT ![id] = IF Len(@) < 2 THEN Append(@, t) ELSE <<@[2], t>>]

Forget(log, ids) == [i \in Ids |-> IF i \in ids THEN <<>> ELSE log[i]]

\* the record of a finished import
Finished(kind, k, before, n) ==
    IF history # "import" THEN lastImport
    ELSE [kind |-> kind, k |-> k, before |-> before, count |-> n]

IdleCall == [op |-> "idle", id |-> NoId, k |-> 0, pc |-> "idle"]

NoImport == [kind |-> "none", k |-> 0, before |-> {}, count |-> 0]

NoPopup == [active |-> FALSE, k |-> 0, currentIndex |-> 0, totalImported |-> 0, before |-> {}]

FreeSlot(s) == calls[s].op = "idle" /\ \A t \in Slots : t < s => calls[t].op # "idle"

(***************************************************************************)
(* What an operation does once the connection is there.                    *)
(*   add:    store.put({videoId, timestamp: Date.now()})                   *)
(*   import: importWatchedHistory                                          *)
(*   sync:   updateWatchedHistoryFromSync                                  *)
(*   clear:  store.clear()                                                 *)
(***************************************************************************)
Perform(c) ==
    CASE c.op = "add" ->
            /\ store' = StorePut(store, Record(c.id, now))
            /\ addLog' = LogAdd(addLog, c.id, now)
            /\ lastImport' = lastImport
            /\ videoIdCache' = videoIdCache
      [] c.op = "import" ->
            LET r == importWatchedHistory(store, ContentLists[c.k]) IN
            /\ store' = r.store
            /\ addLog' = Forget(addLog, CandidateIds(ContentLists[c.k]))
            /\ lastImport' = Finished("content", c.k, StoredIds(store), r.importCount)
            /\ videoIdCache' = videoIdCache
      [] c.op = "sync" ->
            /\ store' = updateWatchedHistoryFromSync(store, SyncLists[c.k])
            /\ addLog' = Forget(addLog, StoredIds(SeqToSet(SyncLists[c.k])))
            /\ lastImport' = lastImport
            /\ videoIdCache' = videoIdCache
      [] c.op = "clear" ->
            /\ store' = {}
            /\ addLog' = Forget(addLog, Ids)
            /\ lastImport' = lastImport
            /\ videoIdCache' = {}
      [] OTHER ->
            /\ UNCHANGED <<store, addLog, lastImport, videoIdCache>>

(***************************************************************************)
(* A call of addToWatchedHistory / importWatchedHistory /                  *)
(* updateWatchedHistoryFromSync / clearWatchedHistory.  Each starts with   *)
(*     if (!db || !isInitialized) await reinitializeExtension();           *)
(* reinitializeExtension sets isInitialized = false and db = null and      *)
(* awaits initialize(), which awaits initDB().                             *)
(***************************************************************************)
Call(op, id, k) ==
    LET c == [op |-> op, id |-> id, k |-> k, pc |-> "initDB"] IN
    IF db /\ isInitialized
    THEN /\ Perform(c)
         /\ UNCHANGED <<now, db, isInitialized, calls, popup, history>>
         /\ UNCHANGED <<watchVars, scanVars, popupVars, lastLookup, moduleVars, initVars, extraVars, exported, lastOp, timerVars>>
    ELSE \E s \in Slots :
            /\ FreeSlot(s)
            /\ calls' = [calls EXCEPT ![s] = c]
            /\ db' = FALSE
            /\ isInitialized' = FALSE
            /\ videoIdCache' = {}
            /\ UNCHANGED <<store, now, lastImport, addLog, popup, history>>
            /\ UNCHANGED <<watchVars, scanVars, popupVars, lastLookup, moduleVars, initVars, extraVars, exported, lastOp, timerVars>>

addToWatchedHistory(videoId) == Call("add", videoId, 0)

CallImport(k) == Call("import", NoId, k)

CallSync(k) == Call("sync", NoId, k)

clearWatchedHistory == Call("clear", NoId, 0)

(***************************************************************************)
(* initDB settles.  onsuccess: db = request.result, and initialize goes on *)
(* to isInitialized = true; onerror: initialize's catch, db stays null.    *)
(***************************************************************************)
initDB(s, ok) ==
    /\ calls[s].pc = "initDB"
    /\ calls' = [calls EXCEPT ![s].pc = "resume"]
    /\ IF ok
       THEN db' = TRUE /\ isInitialized' = TRUE
       ELSE UNCHANGED <<db, isInitialized>>
    /\ UNCHANGED <<store, now, lastImport, addLog, popup, history>>
    /\ UNCHANGED <<watchVars, scanVars, auxVars>>

(***************************************************************************)
(* The awaiting call resumes after initialize() returned: with a           *)
(* connection it makes its request, with db === null db.transaction throws *)
(* and the call fails without a write.                                     *)
(***************************************************************************)
Resume(s) ==
    /\ calls[s].pc = "resume"
    /\ calls' = [calls EXCEPT ![s] = IdleCall]
    /\ IF db
       THEN Perform(calls[s])
       ELSE UNCHANGED <<store, addLog, lastImport, videoIdCache>>
    /\ UNCHANGED <<now, db, isInitialized, popup, history>>
    /\ UNCHANGED <<watchVars, scanVars, popupVars, lastLookup, moduleVars, initVars, extraVars, exported, lastOp, timerVars>>

(***************************************************************************)
(* db.onclose / db.onerror: reinitializeExtension() is started, nobody     *)
(* awaits it.                                                              *)
(***************************************************************************)
dbOnClose ==
    /\ db
    /\ \E s \in Slots :
         /\ FreeSlot(s)
         /\ calls' = [calls EXCEPT ![s] = [op |-> "init", id |-> NoId, k |-> 0, pc |-> "initDB"]]
    /\ db' = FALSE
    /\ isInitialized' = FALSE
    /\ videoIdCache' = {}
    /\ UNCHANGED <<store, now, lastImport, addLog, popup, history>>
    /\ UNCHANGED <<watchVars, scanVars, popupVars, lastLookup, moduleVars, initVars, extraVars, exported, lastOp, timerVars>>

(***************************************************************************)
(* The popup's file picker and status line, the extractor's cache, the     *)
(* last store operation whose request failed, and the                      *)
(* debounce timers, before anything has used them.                         *)
(***************************************************************************)
NoStatus == [type |-> "none", text |-> "none"]

NoFile == [name |-> "none", f |-> 0]

NoUrl == <<>>

Null == <<>>

NoLookup == [fn |-> "none", url |-> NoUrl, videoId |-> Null]

NoOp == [op |-> "none", attempts |-> 0, outcome |-> "none"]

Undefined == -1

(***************************************************************************)
(* Quality levels.  QUALITY_ORDER runs from the highest to the lowest; the *)
(* player lists its levels in the same order and ends the list with        *)
(* "auto", which QUALITY_ORDER does not hold.                              *)
(***************************************************************************)
QUALITY_ORDER ==
    <<"highres", "hd1440", "hd1080", "hd720", "large", "medium", "small", "tiny">>

RECURSIVE Levels(_, _)
Levels(i, S) ==
    IF i > Len(QUALITY_ORDER) THEN <<>>
    ELSE (IF QUALITY_ORDER[i] \in S THEN <<QUALITY_ORDER[i]>> ELSE <<>>) \o Levels(i + 1, S)

\* player.getAvailableQualityLevels(): some levels, highest first, then "auto"
AvailableLists ==
    {Levels(1, S) \o <<"auto">> : S \in SUBSET {QUALITY_ORDER[i] : i \in 1..Len(QUALITY_ORDER)}}

\* what the popup can ask for; "hd2160" is a level QUALITY_ORDER does not hold
Preferences == {QUALITY_ORDER[i] : i \in 1..Len(QUALITY_ORDER)} \cup {"auto", "hd2160"}

NoQuality == [preferredQuality |-> "none", availableQualities |-> <<>>, applied |-> "none"]

Inputs ==
    {[preferredQuality |-> p, availableQualities |-> a, applied |-> "none"] :
        p \in Preferences, a \in AvailableLists}

\* the defaultValues of getLocalStorageData(STORAGE_KEY, defaultValues)
NoCounterData == [countedVideos |-> {}, counter |-> 0]

\* initialize() has opened the database and installed its observers
Loaded ==
    /\ initializationRetries = 0
    /\ initTimers = 0
    /\ opens = 0
    /\ hookSets = 1
    /\ connections = 1

\* the script has just called initialize(), which waits for indexedDB.open
Loading ==
    /\ initializationRetries = 1
    /\ initTimers = 0
    /\ opens = 0
    /\ hookSets = 0
    /\ connections = 0

NotCleared == [done |-> FALSE, cached |-> {}]

NoExport == [done |-> FALSE, lines |-> <<>>, imported |-> FALSE]

NoRequest == [handler |-> "none", response |-> Undefined, entries |-> 0, resolved |-> 0]

AuxIdle ==
    /\ status = NoStatus
    /\ file = NoFile
    /\ videoIdCache = {}
    /\ lastLookup = NoLookup
    /\ lastOp = NoOp
    /\ pageTimer = FALSE
    /\ navigationTimeout = FALSE
    /\ lastProcessed = [url |-> NoId, recent |-> FALSE]
    /\ burstScans = 0
    /\ watchedVideosCache = {}
    /\ cleared = NotCleared
    /\ countRequest = NoRequest
    /\ exported = NoExport
    /\ historyEnabled = TRUE
    /\ observer = db
    /\ trackTimers = {}
    /\ syncInProgress = FALSE
    /\ syncRuns = [r \in Runs |-> "idle"]
    /\ syncReturned = FALSE
    /\ timeout = Undefined
    /\ unanswered = {}
    /\ callbacks = <<Undefined, Undefined>>
    /\ quality \in (IF history = "quality" THEN Inputs ELSE {NoQuality})
    /\ countedVideos = {}
    /\ counter = 0
    /\ counterLabel = Undefined
    /\ shortsStorage = Undefined
    /\ shortsLoading = 0
    /\ navObserver = [observing |-> FALSE, lastUrl |-> NoId]

(***************************************************************************)
(* addToWatchedHistory(videoId) on an open connection whose put request    *)
(* fails.  request.onerror rejects the promise the call returned; the      *)
(* error event goes on to db.onerror, which starts reinitializeExtension() *)
(* and awaits nothing.  The put is not made again.                         *)
(***************************************************************************)
Rejected(op, attempts) == [op |-> op, attempts |-> attempts, outcome |-> "rejected"]

addRejected(videoId) ==
    /\ db /\ isInitialized
    /\ \E s \in Slots :
         /\ FreeSlot(s)
         /\ calls' = [calls EXCEPT ![s] = [op |-> "init", id |-> NoId, k |-> 0, pc |-> "initDB"]]
    /\ db' = FALSE
    /\ isInitialized' = FALSE
    /\ videoIdCache' = {}
    /\ lastOp' = Rejected("add", 1)
    /\ UNCHANGED <<store, now, lastImport, addLog, popup, history>>
    /\ UNCHANGED <<watchVars, scanVars, popupVars, lastLookup, moduleVars, initVars, extraVars, exported, timerVars>>

(***************************************************************************)
(* URLs are sequences of tokens: the origin, path segments, "?", "&",      *)
(* parameter names with their "=", and ids.  What an extractor returns is  *)
(* the part of the URL its group captured, a sequence of tokens, or Null.  *)
(***************************************************************************)
Site == "https://site"

Urls ==
    { NoUrl,
      <<Site, "/watch", "?", "v=", "a">>,
      <<Site, "/watch", "?", "list=", "b", "&", "v=", "a">>,
      <<Site, "/watch", "?", "v=", "b", "&", "list=", "a">>,
      <<Site, "/shorts/", "b">>,
      <<Site, "/shorts/", "a", "?", "feature=", "b">>,
      <<Site, "/playlist", "?", "list=", "a", "&", "prev=", "b">>,
      <<Site, "/about">> }

PathTokens == {Site, "/watch", "/shorts/", "/playlist", "/about"}

\* the tokens whose text ends in "v="
EndsInVEquals == {"v=", "prev="}

\* the longest run of tokens from position i on with none of stops
RECURSIVE Capture(_, _, _)
Capture(u, i, stops) ==
    IF i > Len(u) \/ u[i] \in stops
    THEN <<>>
    ELSE <<u[i]>> \o Capture(u, i + 1, stops)

First(S) == CHOOSE i \in S : \A j \in S : i <= j

\* url.match(/(?:v=|\/shorts\/)([^&\/]+)/)
getVideoId(u) ==
    IF u = NoUrl THEN Null
    ELSE LET stops == PathTokens \cup {"&"}
             m == {i \in 1..Len(u) :
                     /\ u[i] \in EndsInVEquals \cup {"/shorts/"}
                     /\ Capture(u, i + 1, stops) # <<>>}
         IN IF m = {} THEN Null ELSE Capture(u, First(m) + 1, stops)

\* url.match(/[?&]v=([^&]+)/), null when url.match throws
extractVideoId(u) ==
    IF u = NoUrl THEN Null
    ELSE LET m == {i \in 2..Len(u) :
                     /\ u[i] = "v="
                     /\ u[i - 1] \in {"?", "&"}
                     /\ Capture(u, i + 1, {"&"}) # <<>>}
         IN IF m = {} THEN Null ELSE Capture(u, First(m) + 1, {"&"})

Returned(fn, u, videoId) == [fn |-> fn, url |-> u, videoId |-> videoId]

callGetVideoId(u) ==
    /\ lastLookup' = Returned("getVideoId", u, getVideoId(u))
    /\ UNCHANGED <<storeVars, apiVars, watchVars, scanVars>>
    /\ UNCHANGED <<popupVars, videoIdCache, lastOp, timerVars, moduleVars, initVars, extraVars, exported>>

callExtractVideoId(u) ==
    /\ lastLookup' = Returned("extractVideoId", u, extractVideoId(u))
    /\ UNCHANGED <<storeVars, apiVars, watchVars, scanVars>>
    /\ UNCHANGED <<popupVars, videoIdCache, lastOp, timerVars, moduleVars, initVars, extraVars, exported>>

(***************************************************************************)
(* videoIdCache is a Map from url to id: a set of pairs <<url, id>>.       *)
(***************************************************************************)
CacheHas(cache, u) == \E p \in cache : p[1] = u

CacheGetAny(cache, u) == (CHOOSE p \in cache : \A q \in cache : Len(p[1]) <= Len(q[1]))[2]

CacheGet(cache, u) == (CHOOSE p \in cache : p[1] = u)[2]

CacheSet(cache, u, videoId) == {p \in cache : p[1] # u} \cup {<<u, videoId>>}

getCachedVideoId(u) ==
    /\ IF u = NoUrl
       THEN /\ lastLookup' = Returned("getCachedVideoId", u, Null)
            /\ videoIdCache' = videoIdCache
       ELSE IF CacheHas(videoIdCache, u)
       THEN /\ lastLookup' = Returned("getCachedVideoId", u, CacheGet(videoIdCache, u))
            /\ videoIdCache' = videoIdCache
       ELSE LET videoId == getVideoId(u) IN
            /\ lastLookup' = Returned("getCachedVideoId", u, videoId)
            /\ videoIdCache' = IF videoId # Null
                                 THEN CacheSet(videoIdCache, u, videoId)
                                 ELSE videoIdCache
    /\ UNCHANGED <<storeVars, apiVars, watchVars, scanVars>>
    /\ UNCHANGED <<popupVars, lastOp, timerVars, moduleVars, initVars, extraVars, exported>>

(***************************************************************************)
(* The popup's status line (showStatus).                                   *)
(***************************************************************************)
Processing == [type |-> "info", text |-> "Processing"]

Success == [type |-> "success", text |-> "Successfully imported"]

NoValidIds == [type |-> "error", text |-> "No valid video IDs found in file"]

ErrorImporting == [type |-> "error", text |-> "Error importing file"]

Imported == [type |-> "info", text |-> "Imported"]

(***************************************************************************)
(* The popup's injected import: indexedDB.open, then processChunk.         *)
(***************************************************************************)
Started(k) ==
    [active |-> TRUE, k |-> k, currentIndex |-> 0, totalImported |-> 0,
     before |-> IF history = "import" THEN StoredIds(store) ELSE {}]

handleFileImport(k) ==
    /\ ~popup.active
    /\ popup' = Started(k)
    /\ status' = Processing
    /\ UNCHANGED <<store, now, db, isInitialized, calls, lastImport, addLog, history>>
    /\ UNCHANGED <<watchVars, scanVars, file, cacheVars, moduleVars, initVars, extraVars, exported, lastOp, timerVars>>

\* an abort that takes the whole store with it
AbortAll(s) == {}

\* a put whose error is not prevented aborts the transaction of its chunk:
\* the store is what it was when the transaction began
Abort(s) == s

processChunk(ok) ==
    LET videoIds == InjectedLists[popup.k]
        chunk == Slice(videoIds, popup.currentIndex, chunkSize)
    IN
    /\ popup.active
    /\ IF Len(chunk) = 0
       THEN /\ ok = 0
            /\ lastImport' = Finished("popup", popup.k, popup.before, popup.totalImported)
            /\ popup' = NoPopup
            /\ status' = Success
            /\ UNCHANGED <<store, addLog>>
       ELSE /\ ok \in 0..Len(chunk)
            /\ store' = IF ok = Len(chunk) THEN chunkPuts(chunk, 1, store, now)
                        ELSE Abort(store)
            /\ addLog' = IF ok = Len(chunk) THEN Forget(addLog, SeqToSet(chunk)) ELSE addLog
            /\ popup' = [popup EXCEPT !.totalImported = @ + ok,
                                      !.currentIndex = @ + chunkSize]
            /\ UNCHANGED <<lastImport, status>>
    /\ UNCHANGED <<now, db, isInitialized, calls, history>>
    /\ UNCHANGED <<watchVars, scanVars, file, cacheVars, moduleVars, initVars, extraVars, exported, lastOp, timerVars>>

\* a check that lets an empty list through
NoneValidNever(videoIds) == FALSE

\* videoIds.length === 0
NoneValid(videoIds) == Len(videoIds) = 0

(***************************************************************************)
(* handleFileImport from the file on: read it, parse it by its name, stop  *)
(* with an error status when parsing throws or leaves no id, else start    *)
(* the injected import with the parsed list.                               *)
(***************************************************************************)
importFile(name, f) ==
    LET r == parse(name, Files[f]) IN
    /\ ~popup.active
    /\ file' = [name |-> name, f |-> f]
    /\ IF r.thrown
       THEN status' = ErrorImporting /\ UNCHANGED popup
       ELSE IF NoneValid(r.videoIds)
            THEN status' = NoValidIds /\ UNCHANGED popup
            ELSE status' = Processing /\ popup' = Started(InjectedIndex(name, f))
    /\ UNCHANGED <<store, now, db, isInitialized, calls, lastImport, addLog, history>>
    /\ UNCHANGED <<watchVars, scanVars, cacheVars, moduleVars, initVars, extraVars, exported, lastOp, timerVars>>

\* processChunk when no put of the chunk fails
processChunkAll ==
    /\ popup.active
    /\ processChunk(Len(Slice(InjectedLists[popup.k], popup.currentIndex, chunkSize)))

(***************************************************************************)
(* The older popup (part_009): one transaction, a put of                   *)
(* {videoId: line.trim(), timestamp: Date.now()} for every non-blank line. *)
(***************************************************************************)
RECURSIVE legacyPuts(_, _, _, _)
legacyPuts(lines, i, s, t) ==
    IF i > Len(lines) THEN s
    ELSE legacyPuts(lines, i + 1,
                    IF NonBlank(lines[i]) THEN StorePut(s, Record(Trim(lines[i]), t)) ELSE s,
                    t)

legacyImport(f) ==
    /\ store' = legacyPuts(Files[f], 1, store, now)
    /\ addLog' = Forget(addLog, CandidateIds(Files[f]))
    /\ lastImport' = Finished("legacy", f, StoredIds(store),
                              Len(SelectSeq(Files[f], NonBlank)))
    /\ status' = Imported
    /\ UNCHANGED <<now, db, isInitialized, calls, popup, history>>
    /\ UNCHANGED <<watchVars, scanVars, file, cacheVars, moduleVars, initVars, extraVars, exported, lastOp, timerVars>>

(***************************************************************************)
(* exportHistory: the ids of getAll(), which come in key order, one per    *)
(* line.  The file has the extension .txt, so importing it takes the TXT   *)
(* branch of handleFileImport; here every put of that import succeeds.     *)
(***************************************************************************)
KeyOrder == <<Header, "a", "b", "s", "t">>

Stored(s) == LET In(id) == id \in StoredIds(s) IN SelectSeq(KeyOrder, In)

Export(s) == [i \in 1..Len(Stored(s)) |-> Cand(Stored(s)[i], FALSE)]

exportHistory ==
    /\ db
    /\ exported' = [done |-> TRUE, lines |-> Export(getAll(store)), imported |-> FALSE]
    /\ status' = Success
    /\ UNCHANGED <<storeVars, apiVars, watchVars, scanVars>>
    /\ UNCHANGED <<file, cacheVars, lastOp, timerVars, moduleVars, initVars, extraVars>>

importExported ==
    LET videoIds == parseTxt(exported.lines).videoIds IN
    /\ db
    /\ exported.done
    /\ ~exported.imported
    /\ ~popup.active
    /\ exported' = [exported EXCEPT !.imported = TRUE]
    /\ IF NoneValid(videoIds)
       THEN /\ status' = NoValidIds
            /\ UNCHANGED <<store, addLog>>
       ELSE /\ status' = Success
            /\ store' = chunkPuts(videoIds, 1, store, now)
            /\ addLog' = Forget(addLog, SeqToSet(videoIds))
    /\ UNCHANGED <<now, db, isInitialized, calls, lastImport, popup, history>>
    /\ UNCHANGED <<watchVars, scanVars>>
    /\ UNCHANGED <<file, cacheVars, lastOp, timerVars, moduleVars, initVars, extraVars>>

Tick ==
    /\ now < MaxClock
    /\ now' = now + 1
    /\ UNCHANGED <<store, db, isInitialized, calls, lastImport, addLog, popup, history>>
    /\ UNCHANGED <<watchVars, scanVars, auxVars>>

(***************************************************************************)
(* The page: one main video element, one feed (Shorts preview) video       *)
(* element, and the item containers of the DOM.                            *)
(***************************************************************************)
MaxTime == 2
MaxListeners == 2
MaxScans == 2
NumContainers == 3

MaxBurst == 3

MaxOpens == 5

MaxHooks == 3

MaxTimers == 3

MAX_RETRIES == 3
THRESHOLD == 2

Videos == {"main", "feed"}
LSlots == 1..MaxListeners
SSlots == 1..MaxScans
Containers == 1..NumContainers

\* the positions a video starts at after a navigation: the start, or a resume point
StartPositions == {0, THRESHOLD}

\* getCachedVideoId(link.href) of the container's link; NoId: no link in the container.
\* Containers 1 and 2 are nested (a ytd-rich-item-renderer around a
\* ytm-shorts-lockup-view-model): the same link and the same thumbnail.
ContainerVideo(c) ==
    CASE c = 1 -> "a" [] c = 2 -> "a" [] c = 3 -> "b" [] c = 4 -> NoId [] OTHER -> "b"

\* the element container.querySelector(thumbnail selectors) finds; 0: none
ThumbnailOf(c) ==
    CASE c = 1 -> 1 [] c = 2 -> 1 [] c = 3 -> 3 [] c = 4 -> 4 [] OTHER -> 0

\* link.href.includes('/shorts/')
IsShort(c) == c \in {1, 2}

Thumbnails == {ThumbnailOf(c) : c \in Containers} \ {0}

\* a lookup that finds every id
isVideoWatchedAlways(s, videoId) == TRUE

\* !!request.result of objectStore.get(videoId)
isVideoWatched(s, videoId) == EntriesFor(s, videoId) # {}

(***************************************************************************)
(* timeUpdateHandler (handleVideoPlayback and createShortsObserver hold    *)
(* the same closure):                                                      *)
(*     if (currentTime > lastUpdateTime) {                                 *)
(*         playTime += currentTime - lastUpdateTime;                       *)
(*         if (playTime >= 2 && !processedVideos.has(videoId)) { ... }     *)
(*     }                                                                   *)
(*     lastUpdateTime = currentTime;                                       *)
(* History fields of a listener: `since` is the forward progress of the    *)
(* position since the listener was attached (`prev` the position it was    *)
(* last at, first the one at attach time); `moved` the total forward       *)
(* movement between consecutive updates, the first taken from 0, and       *)
(* `covered` the seconds of the video those movements passed over.         *)
(***************************************************************************)
FreeListener ==
    [pc |-> "free", videoId |-> NoId, video |-> "main", playTime |-> 0,
     lastUpdateTime |-> 0, since |-> 0, prev |-> 0, moved |-> 0, covered |-> {}]

NewListener(videoId, v) ==
    [pc |-> "attached", videoId |-> videoId, video |-> v, playTime |-> 0,
     lastUpdateTime |-> 0, since |-> 0,
     prev |-> IF history = "progress" THEN currentTime[v] ELSE 0,
     moved |-> 0, covered |-> {}]

\* a handler that marks without asking processedVideos
ShouldMarkNoGuard(playTime, videoId, processed) == playTime >= THRESHOLD

ShouldMark(playTime, videoId, processed) ==
    playTime >= THRESHOLD /\ videoId \notin processed

\* a handler that counts the distance of every jump, backward ones too
PlayTimeAbsolute(playTime, lastUpdateTime, t) ==
    IF t > lastUpdateTime THEN playTime + (t - lastUpdateTime)
    ELSE playTime + (lastUpdateTime - t)

PlayTimeAfter(playTime, lastUpdateTime, t) ==
    IF t > lastUpdateTime THEN playTime + (t - lastUpdateTime) ELSE playTime

Observed(l, t) ==
    [l EXCEPT
        !.playTime = PlayTimeAfter(l.playTime, l.lastUpdateTime, t),
        !.lastUpdateTime = t,
        !.since = IF history = "progress" /\ t > l.prev THEN @ + (t - l.prev) ELSE @,
        !.prev = IF history = "progress" THEN t ELSE @,
        !.moved = IF history = "seek" /\ t > l.lastUpdateTime
                  THEN @ + (t - l.lastUpdateTime) ELSE @,
        !.covered = IF history = "seek" /\ t > l.lastUpdateTime
                    THEN @ \cup ((l.lastUpdateTime + 1)..t) ELSE @]

\* the record of where each video is, kept for `since`
Position(v, t) ==
    IF history = "progress" THEN [currentTime EXCEPT ![v] = t] ELSE currentTime

\* st: [listeners, processedVideos, store, putCalls] while an event is dispatched.
\* A listener whose id is already in processedVideos can never mark again: its
\* counters are left as they are.  Without a connection addToWatchedHistory
\* rejects: the await throws, the handler ends there and the listener stays.
timeUpdateHandler(i, t, st) ==
    LET l == st.listeners[i]
        l2 == Observed(l, t)
    IN
    IF t > l.lastUpdateTime /\ ShouldMark(l2.playTime, l.videoId, st.processedVideos)
    THEN [listeners |-> [st.listeners EXCEPT ![i] =
                            [l2 EXCEPT !.pc = IF db /\ isInitialized
                                              THEN "adding" ELSE "attached"]],
          processedVideos |-> st.processedVideos \cup {l.videoId},
          store |-> IF db /\ isInitialized
                    THEN StorePut(st.store, Record(l.videoId, now))
                    ELSE st.store,
          putCalls |-> [st.putCalls EXCEPT ![l.videoId] = @ + 1]]
    ELSE IF l.videoId \in st.processedVideos
         THEN st
         ELSE [st EXCEPT !.listeners[i] = l2]

\* the listeners of the element run one after the other
RECURSIVE dispatch(_, _, _, _)
dispatch(i, v, t, st) ==
    IF i > MaxListeners THEN st
    ELSE IF st.listeners[i].pc = "attached" /\ st.listeners[i].video = v
         THEN dispatch(i + 1, v, t, timeUpdateHandler(i, t, st))
         ELSE dispatch(i + 1, v, t, st)

timeupdate(v, t) ==
    LET st == dispatch(1, v, t, [listeners |-> listeners,
                                 processedVideos |-> processedVideos,
                                 store |-> store, putCalls |-> putCalls])
    IN
    /\ \E i \in LSlots : listeners[i].pc = "attached" /\ listeners[i].video = v
    /\ currentTime' = Position(v, t)
    /\ listeners' = st.listeners
    /\ processedVideos' = st.processedVideos
    /\ store' = st.store
    /\ putCalls' = st.putCalls
    /\ UNCHANGED <<now, db, isInitialized, apiVars, auxVars, url, tracked, videoObservers, scanVars>>

FreeL(i) == listeners[i].pc = "free" /\ \A j \in LSlots : j < i => listeners[j].pc # "free"

(***************************************************************************)
(* handleVideoPlayback: returns when the page has no video id or the id is *)
(* in processedVideos; otherwise setupVideoTracking(video) adds a listener *)
(* and a videoObserver is connected.                                       *)
(***************************************************************************)
handleVideoPlayback ==
    /\ url # NoId
    /\ url \notin processedVideos
    /\ \E i \in LSlots :
         /\ FreeL(i)
         /\ listeners' = [listeners EXCEPT ![i] = NewListener(url, "main")]
    /\ videoObservers' = videoObservers \cup {url}
    /\ UNCHANGED <<storeVars, apiVars, auxVars, url, currentTime, tracked, processedVideos, putCalls,
                   scanVars>>

\* the videoObserver of an earlier handleVideoPlayback(videoId) sees a mutation
videoObserver(videoId) ==
    /\ videoId \in videoObservers
    /\ ~tracked
    /\ tracked' = TRUE
    /\ \E i \in LSlots :
         /\ FreeL(i)
         /\ listeners' = [listeners EXCEPT ![i] = NewListener(videoId, "main")]
    /\ videoObservers' = videoObservers \ {videoId}
    /\ UNCHANGED <<storeVars, apiVars, auxVars, url, currentTime, processedVideos, putCalls, scanVars>>

(***************************************************************************)
(* Client-side navigation to another page.  The host keeps the main video  *)
(* element, or replaces it: listeners of a replaced element never run      *)
(* again.                                                                  *)
(***************************************************************************)
navigate(videoId, replaced, start) ==
    /\ videoId # url
    /\ url' = videoId
    /\ currentTime' = Position("main", start)
    /\ IF replaced
       THEN /\ tracked' = FALSE
            /\ listeners' = [i \in LSlots |->
                                IF listeners[i].pc = "attached" /\ listeners[i].video = "main"
                                THEN FreeListener ELSE listeners[i]]
       ELSE UNCHANGED <<tracked, listeners>>
    /\ UNCHANGED <<storeVars, apiVars, auxVars, videoObservers, processedVideos, putCalls, scanVars>>

(***************************************************************************)
(* markWatchedVideosOnPage.  The NodeList of unchecked containers is taken *)
(* once; each iteration flags its container, resolves the link and awaits  *)
(* isVideoWatched; a container without a link is passed without an await.  *)
(***************************************************************************)
FreeScan == [pc |-> "free", list |-> <<>>, i |-> 0, isWatched |-> FALSE, owner |-> 0]

\* the containers of the document without data-watched-checked, in document order
RECURSIVE querySelectorAll(_, _, _)
querySelectorAll(c, doc, ch) ==
    IF c > NumContainers THEN <<>>
    ELSE (IF c \in doc /\ c \notin ch THEN <<c>> ELSE <<>>) \o querySelectorAll(c + 1, doc, ch)

\* the loop from container list[i] up to the next await, or to the end
RECURSIVE scanLoop(_, _, _, _)
scanLoop(list, i, ch, obs) ==
    IF i > Len(list) THEN [i |-> i, checked |-> ch, observed |-> obs]
    ELSE IF ContainerVideo(list[i]) = NoId
         THEN scanLoop(list, i + 1, ch \cup {list[i]}, obs)
         ELSE [i |-> i, checked |-> ch \cup {list[i]},
               observed |-> IF IsShort(list[i]) THEN obs \cup {list[i]} ELSE obs]

\* a guard that never finds the marker
MarkerMissingAlways(n) == TRUE

\* !thumbnail.querySelector('.yt-commander-watched')
MarkerMissing(n) == n = 0

FreeS(s) == scans[s].pc = "free" /\ \A u \in SSlots : u < s => scans[u].pc # "free"

\* the scan of slot s goes on from index i; owner is the listener that awaits it
Continue(s, list, i, owner) ==
    LET r == scanLoop(list, i, checked, observed) IN
    /\ checked' = r.checked
    /\ observed' = r.observed
    /\ IF r.i > Len(list)
       THEN /\ scans' = [scans EXCEPT ![s] = FreeScan]
            /\ listeners' = IF owner # 0
                            THEN [listeners EXCEPT ![owner] = FreeListener]
                            ELSE listeners
       ELSE /\ scans' = [scans EXCEPT ![s] =
                            [pc |-> "lookup", list |-> list, i |-> r.i,
                             isWatched |-> isVideoWatched(store, ContainerVideo(list[r.i])),
                             owner |-> owner]]
            /\ listeners' = IF owner # 0
                            THEN [listeners EXCEPT ![owner].pc = "marking"]
                            ELSE listeners

\* started by an observer, a timer or a navigation
markWatchedVideosOnPage ==
    /\ \E s \in SSlots :
         /\ FreeS(s)
         /\ Continue(s, querySelectorAll(1, present, checked), 1, 0)
    /\ UNCHANGED <<markers, present>>
    /\ UNCHANGED <<storeVars, apiVars, auxVars, url, currentTime, tracked, videoObservers,
                   processedVideos, putCalls>>

\* the put of listener i succeeded: the handler goes on to
\* await markWatchedVideosOnPage() and then removes the listener
putDone(i) ==
    /\ listeners[i].pc = "adding"
    /\ \E s \in SSlots :
         /\ FreeS(s)
         /\ Continue(s, querySelectorAll(1, present, checked), 1, i)
    /\ UNCHANGED <<markers, present>>
    /\ UNCHANGED <<storeVars, apiVars, auxVars, url, currentTime, tracked, videoObservers,
                   processedVideos, putCalls>>

\* isVideoWatched settled for the container the scan of slot s waits on
lookupDone(s) ==
    LET sc == scans[s]
        thumbnail == ThumbnailOf(sc.list[sc.i])
    IN
    /\ sc.pc = "lookup"
    /\ markers' = IF sc.isWatched /\ thumbnail # 0 /\ MarkerMissing(markers[thumbnail])
                  THEN [markers EXCEPT ![thumbnail] = @ + 1]
                  ELSE markers
    /\ Continue(s, sc.list, sc.i + 1, sc.owner)
    /\ UNCHANGED present
    /\ UNCHANGED <<storeVars, apiVars, auxVars, url, currentTime, tracked, videoObservers,
                   processedVideos, putCalls>>

\* the loop index after the catch of a container's try block: continue
AfterFailureAbort(sc) == Len(sc.list) + 1

AfterFailure(sc) == sc.i + 1

(***************************************************************************)
(* The lookup the scan of slot s waits on fails: db.transaction throws in  *)
(* isVideoWatched, the promise it returned rejects, and the await throws   *)
(* into the catch of the container's try block.                            *)
(***************************************************************************)
lookupFailed(s) ==
    LET sc == scans[s] IN
    /\ sc.pc = "lookup"
    /\ Continue(s, sc.list, AfterFailure(sc), sc.owner)
    /\ UNCHANGED <<markers, present>>
    /\ UNCHANGED <<storeVars, apiVars, auxVars, url, currentTime, tracked, videoObservers,
                   processedVideos, putCalls>>

(***************************************************************************)
(* The IntersectionObserver callback of createShortsObserver for an        *)
(* observed container that came into view with a video inside.             *)
(***************************************************************************)
shortsObserver(c) ==
    /\ c \in observed
    /\ ContainerVideo(c) \notin processedVideos
    /\ \E i \in LSlots :
         /\ FreeL(i)
         /\ listeners' = [listeners EXCEPT ![i] = NewListener(ContainerVideo(c), "feed")]
    /\ UNCHANGED <<storeVars, apiVars, auxVars, url, currentTime, tracked, videoObservers,
                   processedVideos, putCalls, scanVars>>

\* the host adds an item container to the document
addContainer(c) ==
    /\ c \notin present
    /\ present' = present \cup {c}
    /\ UNCHANGED <<storeVars, apiVars, auxVars, watchVars, checked, observed, markers, scans>>

(***************************************************************************)
(* The two debounce timers.  pageObserver keeps its timer in               *)
(* window.ytCommanderMarkingTimeout, handlePageUpdate keeps its own in     *)
(* navigationTimeout and passes over a call for the url it processed less  *)
(* than a second ago.  burstScans counts the scans started since the last  *)
(* trigger that found no timer pending.                                    *)
(***************************************************************************)
Burst(n) == IF pageTimer \/ navigationTimeout THEN n ELSE 0

Skipped(u, last) == u = last.url /\ last.recent

handlePageUpdate ==
    IF Skipped(url, lastProcessed)
    THEN UNCHANGED <<navigationTimeout, lastProcessed>>
    ELSE /\ lastProcessed' = [url |-> url, recent |-> TRUE]
         /\ navigationTimeout' = TRUE

\* the host adds an item container: pageObserver and handleMutations both run
mutation(c) ==
    /\ c \notin present
    /\ present' = present \cup {c}
    /\ pageTimer' = TRUE
    /\ handlePageUpdate
    /\ burstScans' = Burst(burstScans)
    /\ UNCHANGED <<storeVars, apiVars, watchVars, checked, observed, markers, scans>>
    /\ UNCHANGED <<popupVars, cacheVars, moduleVars, initVars, extraVars, exported, lastOp>>

\* yt-navigate-finish, popstate, pushState or replaceState
navigationSignal ==
    /\ handlePageUpdate
    /\ burstScans' = Burst(burstScans)
    /\ UNCHANGED <<storeVars, apiVars, watchVars, scanVars>>
    /\ UNCHANGED <<popupVars, cacheVars, moduleVars, initVars, extraVars, exported, lastOp, pageTimer>>

startScan ==
    /\ \E s \in SSlots :
         /\ FreeS(s)
         /\ Continue(s, querySelectorAll(1, present, checked), 1, 0)
    /\ burstScans < MaxBurst
    /\ burstScans' = burstScans + 1
    /\ UNCHANGED <<markers, present>>
    /\ UNCHANGED <<storeVars, apiVars, url, currentTime, tracked, videoObservers,
                   processedVideos, putCalls>>
    /\ UNCHANGED <<popupVars, cacheVars, moduleVars, initVars, extraVars, exported, lastOp, lastProcessed>>

\* window.ytCommanderMarkingTimeout fires and the idle callback runs
pageTimerFires ==
    /\ pageTimer
    /\ pageTimer' = FALSE
    /\ startScan
    /\ UNCHANGED navigationTimeout

\* navigationTimeout fires on a page that is neither a watch nor a Shorts page
navigationTimeoutFires ==
    /\ navigationTimeout
    /\ url = NoId
    /\ navigationTimeout' = FALSE
    /\ startScan
    /\ UNCHANGED pageTimer

\* lastProcessedTime is a second old; navigationTimeout fired long before
secondPassed ==
    /\ lastProcessed.recent
    /\ ~navigationTimeout
    /\ lastProcessed' = [lastProcessed EXCEPT !.recent = FALSE]
    /\ UNCHANGED <<storeVars, apiVars, watchVars, scanVars>>
    /\ UNCHANGED <<popupVars, cacheVars, moduleVars, initVars, extraVars, exported, lastOp, pageTimer, navigationTimeout, burstScans>>

PageIdle ==
    /\ url = NoId
    /\ currentTime = [v \in Videos |-> 0]
    /\ tracked = FALSE
    /\ listeners = [i \in LSlots |-> FreeListener]
    /\ videoObservers = {}
    /\ processedVideos = {}
    /\ putCalls = [id \in Ids |-> 0]
    /\ checked = {}
    /\ observed = {}
    /\ markers = [th \in Thumbnails |-> 0]
    /\ scans = [s \in SSlots |-> FreeScan]
    /\ present = {}
    /\ AuxIdle

\* the store and the module after a successful initialize(), nothing imported
StoreReady(h) ==
    /\ db = TRUE
    /\ isInitialized = TRUE
    /\ calls = [s \in Slots |-> IdleCall]
    /\ lastImport = NoImport
    /\ addLog = [i \in Ids |-> <<>>]
    /\ popup = NoPopup
    /\ history = h
    /\ Loaded

(***************************************************************************)
(* The store under its operations.  The script starts with initialize().   *)
(* No video page is open and no scan runs.                                 *)
(***************************************************************************)
InitStore ==
    /\ store = {}
    /\ now = 0
    /\ db = FALSE
    /\ isInitialized = FALSE
    /\ calls = [s \in Slots |-> IF s = 1
                                THEN [op |-> "init", id |-> NoId, k |-> 0, pc |-> "initDB"]
                                ELSE IdleCall]
    /\ lastImport = NoImport
    /\ addLog = [i \in Ids |-> <<>>]
    /\ popup = NoPopup
    /\ history = "none"
    /\ Loading
    /\ PageIdle

\* the same, recording the writes of addToWatchedHistory
InitPut ==
    /\ store = {}
    /\ now = 0
    /\ db = FALSE
    /\ isInitialized = FALSE
    /\ calls = [s \in Slots |-> IF s = 1
                                THEN [op |-> "init", id |-> NoId, k |-> 0, pc |-> "initDB"]
                                ELSE IdleCall]
    /\ lastImport = NoImport
    /\ addLog = [i \in Ids |-> <<>>]
    /\ popup = NoPopup
    /\ history = "add"
    /\ Loading
    /\ PageIdle

\* the same, recording what each import returned
InitImport ==
    /\ store = {}
    /\ now = 0
    /\ db = FALSE
    /\ isInitialized = FALSE
    /\ calls = [s \in Slots |-> IF s = 1
                                THEN [op |-> "init", id |-> NoId, k |-> 0, pc |-> "initDB"]
                                ELSE IdleCall]
    /\ lastImport = NoImport
    /\ addLog = [i \in Ids |-> <<>>]
    /\ popup = NoPopup
    /\ history = "import"
    /\ Loading
    /\ PageIdle

NextStore ==
    \/ Tick
    \/ \E id \in Ids : addToWatchedHistory(id)
    \/ \E k \in 1..Len(ImportLists) : CallImport(k)
    \/ \E k \in 1..Len(SyncLists) : CallSync(k)
    \/ clearWatchedHistory
    \/ \E s \in Slots, ok \in BOOLEAN : initDB(s, ok)
    \/ \E s \in Slots : Resume(s)
    \/ dbOnClose
    \/ \E k \in 1..Len(PopupLists) : handleFileImport(k)
    \/ \E ok \in 0..chunkSize : processChunk(ok)

SpecStore == InitStore /\ [][NextStore]_vars

\* addToWatchedHistory among operations that write or clear other ids
NextPut ==
    \/ Tick
    \/ \E id \in Ids : addToWatchedHistory(id)
    \/ \E k \in 1..Len(ImportLists) : CallImport(k)
    \/ clearWatchedHistory
    \/ \E s \in Slots, ok \in BOOLEAN : initDB(s, ok)
    \/ \E s \in Slots : Resume(s)
    \/ dbOnClose

SpecPut == InitPut /\ [][NextPut]_vars

\* the two imports over stores that addToWatchedHistory filled
NextImport ==
    \/ \E id \in Ids : addToWatchedHistory(id)
    \/ \E k \in 1..Len(ImportLists) : CallImport(k)
    \/ \E s \in Slots, ok \in BOOLEAN : initDB(s, ok)
    \/ \E s \in Slots : Resume(s)
    \/ \E k \in 1..Len(PopupLists) : handleFileImport(k)
    \/ \E ok \in 0..chunkSize : processChunk(ok)

SpecImport == InitImport /\ [][NextImport]_vars

(***************************************************************************)
(* Imports of files, one at a time and with no failing put, on a store     *)
(* that can be cleared in between.                                         *)
(***************************************************************************)
NextAccept ==
    \/ \E name \in FileNames, f \in 1..Len(Files) : importFile(name, f)
    \/ processChunkAll
    \/ ~popup.active /\ \E f \in 1..Len(Files) : CallImport(Len(ImportLists) + f)
    \/ ~popup.active /\ \E f \in 1..Len(Files) : legacyImport(f)
    \/ ~popup.active /\ clearWatchedHistory

InitAccept == store = {} /\ now = 0 /\ StoreReady("import") /\ PageIdle

SpecAccept == InitAccept /\ [][NextAccept]_vars

(***************************************************************************)
(* The extractors applied to URLs, the cache, and the reinitialization     *)
(* that clears it.                                                         *)
(***************************************************************************)
NextExtract ==
    \/ \E u \in Urls : callGetVideoId(u)
    \/ \E u \in Urls : callExtractVideoId(u)
    \/ \E u \in Urls : getCachedVideoId(u)
    \/ dbOnClose
    \/ \E s \in Slots : initDB(s, TRUE)
    \/ \E s \in Slots : Resume(s)

InitExtract == store = {} /\ now = 0 /\ StoreReady("none") /\ PageIdle

SpecExtract == InitExtract /\ [][NextExtract]_vars

(***************************************************************************)
(* Exports of stores that the watcher and importWatchedHistory filled, and *)
(* imports of the exported file.                                           *)
(***************************************************************************)
NextExport ==
    \/ \E id \in Ids : addToWatchedHistory(id)
    \/ \E f \in 1..Len(Files) : CallImport(Len(ImportLists) + f)
    \/ clearWatchedHistory
    \/ exportHistory
    \/ importExported

InitExport == store = {} /\ now = 0 /\ StoreReady("none") /\ PageIdle

SpecExport == InitExport /\ [][NextExport]_vars

(***************************************************************************)
(* The injected import alone, its puts failing or not.  Every chunk ends   *)
(* in setTimeout(processChunk, 10), and the timer fires.                   *)
(***************************************************************************)
NextChunks ==
    \/ Tick
    \/ \E k \in 1..Len(PopupLists) : handleFileImport(k)
    \/ \E ok \in 0..chunkSize : processChunk(ok)

InitChunks == store = {} /\ now = 0 /\ StoreReady("import") /\ PageIdle

SpecChunks ==
    /\ InitChunks
    /\ [][NextChunks]_vars
    /\ WF_vars(\E ok \in 0..chunkSize : processChunk(ok))

(***************************************************************************)
(* Playback on a page whose containers the first scan has passed while the *)
(* store was empty: every container is flagged, the Shorts are observed.   *)
(***************************************************************************)
PageScanned ==
    /\ url = NoId
    /\ currentTime = [v \in Videos |-> 0]
    /\ tracked = FALSE
    /\ listeners = [i \in LSlots |-> FreeListener]
    /\ videoObservers = {}
    /\ processedVideos = {}
    /\ putCalls = [id \in Ids |-> 0]
    /\ checked = Containers
    /\ observed = {c \in Containers : ContainerVideo(c) # NoId /\ IsShort(c)}
    /\ markers = [th \in Thumbnails |-> 0]
    /\ scans = [s \in SSlots |-> FreeScan]
    /\ present = Containers
    /\ AuxIdle

NextWatch ==
    \/ \E videoId \in Ids \cup {NoId}, replaced \in BOOLEAN, start \in StartPositions :
          navigate(videoId, replaced, start)
    \/ handleVideoPlayback
    \/ \E videoId \in Ids : videoObserver(videoId)
    \/ \E v \in Videos, t \in 0..MaxTime : timeupdate(v, t)
    \/ \E i \in LSlots : putDone(i)
    \/ \E c \in Containers : shortsObserver(c)

InitWatch == store = {} /\ now = 0 /\ StoreReady("none") /\ PageScanned

SpecWatch == InitWatch /\ [][NextWatch]_vars

InitProgress == store = {} /\ now = 0 /\ StoreReady("progress") /\ PageScanned

SpecProgress == InitProgress /\ [][NextWatch]_vars

InitSeek == store = {} /\ now = 0 /\ StoreReady("seek") /\ PageScanned

SpecSeek == InitSeek /\ [][NextWatch]_vars

(***************************************************************************)
(* Scans over a document that grows, the store being what it is.           *)
(***************************************************************************)
NextScan ==
    \/ \E c \in Containers : addContainer(c)
    \/ markWatchedVideosOnPage
    \/ \E s \in SSlots : lookupDone(s)

InitScan ==
    /\ store \in SUBSET {Record(id, 0) : id \in Ids}
    /\ now = 0
    /\ StoreReady("none")
    /\ PageIdle

SpecScan == InitScan /\ [][NextScan]_vars

\* the same scans with lookups that can fail
NextScanFail ==
    \/ \E c \in Containers : addContainer(c)
    \/ markWatchedVideosOnPage
    \/ \E s \in SSlots : lookupDone(s)
    \/ \E s \in SSlots : lookupFailed(s)

SpecScanFail == InitScan /\ [][NextScanFail]_vars

(***************************************************************************)
(* The promise updateWatchedHistoryFromSync(videos) returns, once every    *)
(* request of its transaction has had its callback.  `ok` is the number of *)
(* puts that succeed before one fails.  resolve() is called from the       *)
(* onsuccess that finds completed === videos.length, reject() from an      *)
(* onerror; a request error aborts the transaction.                        *)
(***************************************************************************)
SyncInputs == << <<>> >> \o SyncLists

SyncOutcome(videos, ok) ==
    IF \E completed \in 1..ok : completed = Len(videos) THEN "resolved"
    ELSE IF ok < Len(videos) THEN "rejected"
    ELSE "pending"

syncSettles(k, ok) ==
    LET videos == SyncInputs[k] IN
    /\ db /\ isInitialized
    /\ ok \in 0..Len(videos)
    /\ store' = IF ok = Len(videos)
                THEN updateWatchedHistoryFromSync(store, videos)
                ELSE store
    /\ lastOp' = [op |-> "sync", videos |-> videos, outcome |-> SyncOutcome(videos, ok)]
    /\ UNCHANGED <<now, db, isInitialized, calls, lastImport, addLog, popup, history>>
    /\ UNCHANGED <<watchVars, scanVars, popupVars, cacheVars, timerVars, moduleVars, initVars, extraVars, exported>>

NextSync ==
    \/ Tick
    \/ \E id \in Ids : addToWatchedHistory(id)
    \/ clearWatchedHistory
    \/ \E k \in 1..Len(SyncInputs), ok \in 0..2 : syncSettles(k, ok)

InitSync == store = {} /\ now = 0 /\ StoreReady("none") /\ PageIdle

SpecSync == InitSync /\ [][NextSync]_vars

(***************************************************************************)
(* Scans of a page whose history is cleared from the popup.                *)
(***************************************************************************)
NextClearMarks ==
    \/ \E c \in Containers : addContainer(c)
    \/ markWatchedVideosOnPage
    \/ \E s \in SSlots : lookupDone(s)
    \/ clearWatchedHistory

SpecClearMarks == InitScan /\ [][NextClearMarks]_vars

(***************************************************************************)
(* The page under playback, navigation and scans, from an empty store.     *)
(***************************************************************************)
NextPage ==
    \/ \E videoId \in {"a", NoId} : navigate(videoId, FALSE, 0)
    \/ handleVideoPlayback
    \/ \E t \in {1, THRESHOLD} : timeupdate("main", t)
    \/ \E i \in LSlots : putDone(i)
    \/ \E c \in Containers : addContainer(c)
    \/ markWatchedVideosOnPage
    \/ \E s \in SSlots : lookupDone(s)

\* the clock has a positive reading: no write is made in the page's first instant
InitPage == store = {} /\ now = 1 /\ StoreReady("none") /\ PageIdle

SpecPage == InitPage /\ [][NextPage]_vars

(***************************************************************************)
(* The watched-history module that keeps watchedVideosCache (part_008), on *)
(* an open connection.  isVideoWatched answers from the cache before it    *)
(* asks the store.                                                         *)
(***************************************************************************)
\* what the watched-history module exports
ModuleExports ==
    {"initWatchedHistory", "addToWatchedHistory", "isVideoWatched", "getAllWatchedVideos",
     "getWatchedVideoCount", "clearWatchedHistory", "cleanup"}

\* trackCurrentVideo(): on a video page, addToWatchedHistory(videoId) in 5 s
trackCurrentVideo(u, timers) == IF u = NoId THEN timers ELSE timers \cup {u}

moduleIsWatched(cache, s, id) == id \in cache \/ EntriesFor(s, id) # {}

moduleAddToWatchedHistory(videoId) ==
    /\ db
    /\ store' = StorePut(store, Record(videoId, now))
    /\ watchedVideosCache' = watchedVideosCache \cup {videoId}
    /\ cleared' = NotCleared
    /\ UNCHANGED <<now, db, isInitialized, apiVars, watchVars, scanVars>>
    /\ UNCHANGED <<popupVars, cacheVars, lastOp, timerVars, countRequest, initVars, extraVars, exported>>

moduleIsVideoWatched(videoId) ==
    /\ db
    /\ watchedVideosCache' = IF videoId \notin watchedVideosCache /\ EntriesFor(store, videoId) # {}
                             THEN watchedVideosCache \cup {videoId}
                             ELSE watchedVideosCache
    /\ UNCHANGED <<storeVars, apiVars, watchVars, scanVars>>
    /\ UNCHANGED <<popupVars, cacheVars, lastOp, timerVars, cleared, countRequest, initVars, extraVars, exported>>

moduleGetAllWatchedVideos ==
    /\ db
    /\ watchedVideosCache' = StoredIds(getAll(store))
    /\ UNCHANGED <<storeVars, apiVars, watchVars, scanVars>>
    /\ UNCHANGED <<popupVars, cacheVars, lastOp, timerVars, cleared, countRequest, initVars, extraVars, exported>>

\* a clear that leaves the cache as it is
CacheKept(cache) == cache

\* watchedVideosCache.clear()
CacheCleared(cache) == {}

moduleClearWatchedHistory(ok) ==
    /\ db
    /\ IF ok
       THEN /\ store' = {}
            /\ watchedVideosCache' = CacheCleared(watchedVideosCache)
            /\ cleared' = [done |-> TRUE, cached |-> watchedVideosCache]
       ELSE UNCHANGED <<store, watchedVideosCache, cleared>>
    /\ UNCHANGED <<now, db, isInitialized, apiVars, watchVars, scanVars>>
    /\ UNCHANGED <<popupVars, cacheVars, lastOp, timerVars, countRequest, initVars, extraVars, exported>>

\* cleanup(): the connection is closed and the cache emptied
cleanup ==
    /\ db
    /\ db' = FALSE
    /\ isInitialized' = FALSE
    /\ watchedVideosCache' = {}
    /\ observer' = FALSE
    /\ UNCHANGED <<store, now, apiVars, watchVars, scanVars>>
    /\ UNCHANGED <<popupVars, cacheVars, lastOp, timerVars, cleared, countRequest, initVars, exported>>
    /\ UNCHANGED <<historyEnabled, trackTimers, afterFeature>>

\* initWatchedHistory(): initializeDB, then getAllWatchedVideos loads the cache
initWatchedHistory ==
    /\ ~db
    /\ db' = TRUE
    /\ isInitialized' = TRUE
    /\ watchedVideosCache' = StoredIds(getAll(store))
    /\ observer' = TRUE
    /\ trackTimers' = trackCurrentVideo(url, trackTimers)
    /\ UNCHANGED <<store, now, apiVars, watchVars, scanVars>>
    /\ UNCHANGED <<popupVars, cacheVars, lastOp, timerVars, cleared, countRequest, initVars, exported>>
    /\ UNCHANGED <<historyEnabled, afterFeature>>

NextModule ==
    \/ Tick
    \/ cleanup
    \/ initWatchedHistory
    \/ \E videoId \in Ids : moduleAddToWatchedHistory(videoId)
    \/ \E videoId \in Ids : moduleIsVideoWatched(videoId)
    \/ moduleGetAllWatchedVideos
    \/ \E ok \in BOOLEAN : moduleClearWatchedHistory(ok)

\* the store holds entries of an earlier import
InitModule ==
    /\ store \in SUBSET {Record(id, NoTimestamp) : id \in Ids}
    /\ now = 0
    /\ StoreReady("none")
    /\ PageIdle

SpecModule == InitModule /\ [][NextModule]_vars

(***************************************************************************)
(* The same module with its requests in flight.  A call creates its        *)
(* transaction and returns a promise; the request runs and its callback    *)
(* fires later, in the order the transactions were created (`k`), whatever *)
(* the module did in between: cleanup() closes the connection, which lets  *)
(* the transactions already created finish.  `ok`: onsuccess or onerror.   *)
(***************************************************************************)
Pending(s) == calls[s].pc = "pending"

\* the place in the line of the transactions that wait
NextK == 1 + Cardinality({s \in Slots : Pending(s)})

\* the callbacks that add to the cache, were they to add on onerror too
CachesOnAnyCallback(ok) == TRUE

\* request.onsuccess is where watchedVideosCache.add(videoId) stands
CachesOnSuccess(ok) == ok

moduleRequest(op, videoId) ==
    /\ db
    /\ op = "add" => isInitialized
    /\ op = "get" => videoId \notin watchedVideosCache
    /\ \E s \in Slots :
         /\ FreeSlot(s)
         /\ calls' = [calls EXCEPT ![s] = [op |-> op, id |-> videoId, k |-> NextK, pc |-> "pending"]]
    /\ UNCHANGED <<storeVars, lastImport, addLog, popup, history, watchVars, scanVars, auxVars>>

moduleCallback(s, ok) ==
    LET c == calls[s] IN
    /\ Pending(s)
    /\ c.k = 1
    /\ calls' = [u \in Slots |->
                    IF u = s THEN IdleCall
                    ELSE IF Pending(u) THEN [calls[u] EXCEPT !.k = @ - 1]
                    ELSE calls[u]]
    /\ CASE c.op = "add" ->
              /\ store' = IF ok THEN StorePut(store, Record(c.id, now)) ELSE store
              /\ watchedVideosCache' = IF CachesOnSuccess(ok)
                                       THEN watchedVideosCache \cup {c.id}
                                       ELSE watchedVideosCache
              /\ cleared' = IF ok THEN NotCleared ELSE cleared
         [] c.op = "get" ->
              /\ watchedVideosCache' = IF CachesOnSuccess(ok) /\ EntriesFor(store, c.id) # {}
                                       THEN watchedVideosCache \cup {c.id}
                                       ELSE watchedVideosCache
              /\ UNCHANGED <<store, cleared>>
         [] c.op = "getAll" ->
              /\ watchedVideosCache' = IF ok THEN StoredIds(getAll(store))
                                       ELSE watchedVideosCache
              /\ UNCHANGED <<store, cleared>>
         [] OTHER ->
              IF ok
              THEN /\ store' = {}
                   /\ watchedVideosCache' = CacheCleared(watchedVideosCache)
                   /\ cleared' = [done |-> TRUE, cached |-> watchedVideosCache]
              ELSE UNCHANGED <<store, watchedVideosCache, cleared>>
    /\ UNCHANGED <<now, db, isInitialized, lastImport, addLog, popup, history, watchVars, scanVars>>
    /\ UNCHANGED <<popupVars, cacheVars, lastOp, timerVars, countRequest, initVars, extraVars, exported>>

\* initWatchedHistory(): the connection opens and getAllWatchedVideos is called
moduleInit ==
    /\ ~db
    /\ db' = TRUE
    /\ isInitialized' = TRUE
    /\ \E s \in Slots :
         /\ FreeSlot(s)
         /\ calls' = [calls EXCEPT ![s] = [op |-> "getAll", id |-> NoId, k |-> NextK, pc |-> "pending"]]
    /\ observer' = TRUE
    /\ trackTimers' = trackCurrentVideo(url, trackTimers)
    /\ UNCHANGED <<store, now, lastImport, addLog, popup, history, watchVars, scanVars>>
    /\ UNCHANGED <<popupVars, cacheVars, lastOp, timerVars, moduleVars, initVars, exported, historyEnabled, afterFeature>>

ModuleOps == {"add", "get", "getAll", "clear"}

NextRequests ==
    \/ Tick
    \/ cleanup
    \/ moduleInit
    \/ \E op \in ModuleOps, videoId \in Ids : moduleRequest(op, videoId)
    \/ \E s \in Slots, ok \in BOOLEAN : moduleCallback(s, ok)

SpecRequests == InitModule /\ [][NextRequests]_vars

(***************************************************************************)
(* The watched-history feature switched off and on from the popup.         *)
(* applySettings() calls disableFeature or enableFeature for the module    *)
(* object: disable(), then cleanup(), or enable(), then init(), each only  *)
(* if the module exports a function of that name.  The navigation observer *)
(* of setupPageObservers is a local that cleanup() cannot disconnect; the  *)
(* url change and the timer it sets before trackCurrentVideo are one step. *)
(***************************************************************************)
Exports(name) == name \in ModuleExports

settingsUpdated(enabled) ==
    /\ historyEnabled' = enabled
    /\ IF enabled
       THEN IF Exports("init")
            THEN /\ db' = TRUE
                 /\ isInitialized' = TRUE
                 /\ watchedVideosCache' = StoredIds(getAll(store))
                 /\ observer' = TRUE
                 /\ trackTimers' = trackCurrentVideo(url, trackTimers)
            ELSE UNCHANGED <<db, isInitialized, watchedVideosCache, observer, trackTimers>>
       ELSE IF Exports("cleanup")
            THEN /\ db' = FALSE
                 /\ isInitialized' = FALSE
                 /\ watchedVideosCache' = {}
                 /\ observer' = FALSE
                 /\ UNCHANGED trackTimers
            ELSE UNCHANGED <<db, isInitialized, watchedVideosCache, observer, trackTimers>>
    /\ UNCHANGED <<store, now, apiVars, watchVars, scanVars>>
    /\ UNCHANGED <<popupVars, cacheVars, lastOp, timerVars, cleared, countRequest, initVars, exported>>
    /\ UNCHANGED afterFeature

\* the page goes to another url: the navigation observer calls trackCurrentVideo()
locationChanged(videoId) ==
    /\ videoId # url
    /\ url' = videoId
    /\ trackTimers' = trackCurrentVideo(videoId, trackTimers)
    /\ UNCHANGED <<storeVars, apiVars, scanVars>>
    /\ UNCHANGED <<currentTime, tracked, listeners, videoObservers, processedVideos, putCalls>>
    /\ UNCHANGED <<popupVars, cacheVars, lastOp, timerVars, moduleVars, initVars, exported>>
    /\ UNCHANGED <<historyEnabled, observer, afterFeature>>

\* a mutation reaches the throttled page observer while it is connected
pageMutation ==
    /\ observer
    /\ trackTimers' = trackCurrentVideo(url, trackTimers)
    /\ trackTimers' # trackTimers
    /\ UNCHANGED <<storeVars, apiVars, watchVars, scanVars>>
    /\ UNCHANGED <<popupVars, cacheVars, lastOp, timerVars, moduleVars, initVars, exported>>
    /\ UNCHANGED <<historyEnabled, observer, afterFeature>>

\* the timer of trackCurrentVideo fires: addToWatchedHistory(videoId).  Without a
\* connection the call ends in its catch: initializeWatchedHistory is not defined.
trackTimerFires(videoId) ==
    /\ videoId \in trackTimers
    /\ trackTimers' = trackTimers \ {videoId}
    /\ IF db /\ isInitialized
       THEN /\ store' = StorePut(store, Record(videoId, now))
            /\ watchedVideosCache' = watchedVideosCache \cup {videoId}
            /\ cleared' = NotCleared
       ELSE UNCHANGED <<store, watchedVideosCache, cleared>>
    /\ UNCHANGED <<now, db, isInitialized, apiVars, watchVars, scanVars>>
    /\ UNCHANGED <<popupVars, cacheVars, lastOp, timerVars, countRequest, initVars, exported>>
    /\ UNCHANGED <<historyEnabled, observer, afterFeature>>

NextFeature ==
    \/ Tick
    \/ \E enabled \in BOOLEAN : settingsUpdated(enabled)
    \/ \E videoId \in Ids \cup {NoId} : locationChanged(videoId)
    \/ pageMutation
    \/ \E videoId \in Ids : trackTimerFires(videoId)

SpecFeature == InitModule /\ [][NextFeature]_vars

(***************************************************************************)
(* The background's performDriveSync.  A call returns at its guard or      *)
(* becomes a run: checkDriveAuth, getWatchedHistoryText, uploadToGoogleDrive,*)
(* each awaited, and `finally { syncInProgress = false }` however the try  *)
(* block is left.  getWatchedHistoryText formats the entries in the        *)
(* callback of chrome.tabs.sendMessage: new Date(video.timestamp)          *)
(* .toISOString() throws for an entry without a timestamp, and a throw in   *)
(* that callback leaves the promise pending, so the run never goes on.     *)
(***************************************************************************)
\* a guard that lets every call in
NeverInProgress(flag) == FALSE

\* if (syncInProgress) return;
InProgress(flag) == flag

FreeRun(r) == syncRuns[r] = "idle" /\ \A q \in Runs : q < r => syncRuns[q] # "idle"

UnchangedBySync ==
    /\ UNCHANGED <<storeVars, apiVars, watchVars, scanVars>>
    /\ UNCHANGED <<popupVars, cacheVars, lastOp, timerVars, moduleVars, initVars, exported>>
    /\ UNCHANGED <<featureVars, afterSync>>

performDriveSync ==
    /\ IF InProgress(syncInProgress)
       THEN /\ syncReturned' = TRUE
            /\ UNCHANGED <<syncInProgress, syncRuns>>
       ELSE /\ syncInProgress' = TRUE
            /\ syncReturned' = FALSE
            /\ \E r \in Runs :
                 /\ FreeRun(r)
                 /\ syncRuns' = [syncRuns EXCEPT ![r] = "checkDriveAuth"]
    /\ UnchangedBySync

\* the finally block
Finally(r) ==
    /\ syncInProgress' = FALSE
    /\ syncRuns' = [syncRuns EXCEPT ![r] = "idle"]
    /\ UNCHANGED syncReturned

Goes(r, pc) ==
    /\ syncRuns' = [syncRuns EXCEPT ![r] = pc]
    /\ UNCHANGED <<syncInProgress, syncReturned>>

checkDriveAuth(r, isAuthenticated) ==
    /\ syncRuns[r] = "checkDriveAuth"
    /\ IF isAuthenticated THEN Goes(r, "getWatchedHistoryText") ELSE Finally(r)
    /\ UnchangedBySync

\* the text of the answer to GET_ALL_WATCHED_VIDEOS; "throws": toISOString threw
HistoryText(videos, answered) ==
    IF ~answered THEN ""
    ELSE IF \E v \in videos : v.timestamp = NoTimestamp THEN "throws"
    ELSE IF videos = {} THEN ""
    ELSE "text"

getWatchedHistoryText(r, answered) ==
    LET historyText == HistoryText(getAll(store), answered) IN
    /\ syncRuns[r] = "getWatchedHistoryText"
    /\ CASE historyText = "throws" -> Goes(r, "pending")
         [] historyText = "" -> Finally(r)
         [] OTHER -> Goes(r, "uploadToGoogleDrive")
    /\ UnchangedBySync

\* the upload returns or throws
uploadToGoogleDrive(r, ok) ==
    /\ syncRuns[r] = "uploadToGoogleDrive"
    /\ Finally(r)
    /\ UnchangedBySync

NextDrive ==
    \/ Tick
    \/ \E id \in Ids : addToWatchedHistory(id)
    \/ performDriveSync
    \/ \E r \in Runs, isAuthenticated \in BOOLEAN : checkDriveAuth(r, isAuthenticated)
    \/ \E r \in Runs, answered \in BOOLEAN : getWatchedHistoryText(r, answered)
    \/ \E r \in Runs, ok \in BOOLEAN : uploadToGoogleDrive(r, ok)

SpecDrive == InitModule /\ [][NextDrive]_vars

(***************************************************************************)
(* createThrottledObserver(callback, delay).  The observer's function      *)
(* returns while a timer is pending and otherwise sets one; the timer      *)
(* clears `timeout` and invokes the callback.  Time is `now`, in units of  *)
(* which the delay of setupPageObservers' observer is Delay; a timer fires *)
(* when it is due.                                                         *)
(***************************************************************************)
UnchangedByThrottle ==
    /\ UNCHANGED <<store, db, isInitialized, apiVars, watchVars, scanVars>>
    /\ UNCHANGED <<popupVars, cacheVars, lastOp, timerVars, moduleVars, initVars, exported>>
    /\ UNCHANGED <<featureVars, syncVars, quality, shortsVars>>

\* an observer that sets its timer anew at every mutation
DueAfterLast(pending, t) == t + Delay

\* if (timeout) return; timeout = setTimeout(..., delay)
DueAfter(pending, t) == IF pending # Undefined THEN pending ELSE t + Delay

mutationObserved ==
    /\ now \notin unanswered
    /\ unanswered' = unanswered \cup {now}
    /\ timeout' = DueAfter(timeout, now)
    /\ UNCHANGED <<now, callbacks>>
    /\ UnchangedByThrottle

timeoutFires ==
    /\ timeout # Undefined
    /\ now = timeout
    /\ timeout' = Undefined
    /\ callbacks' = <<callbacks[2], now>>
    /\ unanswered' = {}
    /\ UNCHANGED now
    /\ UnchangedByThrottle

timePasses ==
    /\ now < MaxElapsed
    /\ timeout # Undefined => now < timeout
    /\ now' = now + 1
    /\ UNCHANGED <<timeout, unanswered, callbacks>>
    /\ UnchangedByThrottle

NextThrottle ==
    \/ mutationObserved
    \/ timeoutFires
    \/ timePasses

SpecThrottle == InitSync /\ [][NextThrottle]_vars

(***************************************************************************)
(* setVideoQuality(preferredQuality) on a player that lists its levels.    *)
(***************************************************************************)
\* QUALITY_ORDER.indexOf(q), counted from 1; 0 for -1
IndexOf(q) ==
    IF \E i \in 1..Len(QUALITY_ORDER) : QUALITY_ORDER[i] = q
    THEN CHOOSE i \in 1..Len(QUALITY_ORDER) : QUALITY_ORDER[i] = q
    ELSE 0

includes(list, q) == \E i \in 1..Len(list) : list[i] = q

\* a search that takes the head of the list whatever the preference
firstAvailable(preferredQuality, availableQualities) == availableQualities[1]

findBestAvailableQuality(preferredQuality, availableQualities) ==
    LET preferredIndex == IndexOf(preferredQuality)
        found == {i \in preferredIndex..Len(QUALITY_ORDER) :
                     i >= 1 /\ includes(availableQualities, QUALITY_ORDER[i])}
    IN
    IF preferredIndex = 0 THEN availableQualities[1]
    ELSE IF found # {}
         THEN QUALITY_ORDER[CHOOSE i \in found : \A j \in found : i <= j]
         ELSE availableQualities[1]

targetQuality(preferredQuality, availableQualities) ==
    IF includes(availableQualities, preferredQuality)
    THEN preferredQuality
    ELSE findBestAvailableQuality(preferredQuality, availableQualities)

setVideoQuality ==
    /\ quality.applied = "none"
    /\ Len(quality.availableQualities) # 0
    /\ quality' = [quality EXCEPT
                      !.applied = targetQuality(quality.preferredQuality,
                                                quality.availableQualities)]
    /\ UNCHANGED <<storeVars, apiVars, watchVars, scanVars>>
    /\ UNCHANGED <<popupVars, cacheVars, lastOp, timerVars, moduleVars, initVars, exported>>
    /\ UNCHANGED <<featureVars, syncVars, throttleVars, shortsVars>>

NextQuality == setVideoQuality

InitQuality == store = {} /\ now = 0 /\ StoreReady("quality") /\ PageIdle

SpecQuality == InitQuality /\ [][NextQuality]_vars

(***************************************************************************)
(* The Shorts counter of part_006.  `url` is the id of the Shorts page     *)
(* shown, NoId on any other page.                                          *)
(*                                                                         *)
(* getLocalStorageData(keys, defaultValues) resolves with                  *)
(* {...defaultValues, ...result}, where result holds only the key asked    *)
(* for: loadCounterData reads `countedVideos` and `counter` of that        *)
(* object, which are the defaults whatever is stored under STORAGE_KEY.    *)
(* setLocalStorageData(data) takes one argument: saveCounterData passes    *)
(* the key as `data` and the counter data as a second argument that is     *)
(* not read, and chrome.storage.local.set refuses a string, which the      *)
(* helper or saveCounterData catches.                                      *)
(***************************************************************************)
getLocalStorageData(stored, defaultValues) == defaultValues

setLocalStorageData(stored, data) == stored

saveCounterData(stored, counted, n) ==
    setLocalStorageData(stored, [countedVideos |-> counted, counter |-> n])

\* a test that takes every id for a new one
AlwaysNew(currentId, counted) == TRUE

\* !countedVideos.has(currentId)
IsNew(currentId, counted) == currentId \notin counted

\* updateCounterDisplay(): the text of the label, if there is a label
updateCounterDisplay(label, n) == IF label # Undefined THEN n ELSE label

\* createCounterLabel(): no second label; the new one shows the counter
createCounterLabel(label, n) == IF label # Undefined THEN label ELSE n

\* the module state after checkForNewShorts() on page `currentId`
AfterCheck(currentId, counted, n, label) ==
    IF currentId # NoId
    THEN LET shown == createCounterLabel(label, n) IN
         IF IsNew(currentId, counted)
         THEN [countedVideos |-> counted \cup {currentId},
               counter |-> n + 1,
               counterLabel |-> updateCounterDisplay(shown, n + 1),
               saved |-> TRUE]
         ELSE [countedVideos |-> counted, counter |-> n, counterLabel |-> shown,
               saved |-> FALSE]
    ELSE [countedVideos |-> counted, counter |-> n, counterLabel |-> Undefined,
          saved |-> FALSE]

UnchangedByShorts ==
    /\ UNCHANGED <<storeVars, apiVars, scanVars>>
    /\ UNCHANGED <<currentTime, tracked, listeners, videoObservers, processedVideos, putCalls>>
    /\ UNCHANGED <<popupVars, cacheVars, lastOp, timerVars, moduleVars, initVars, exported>>
    /\ UNCHANGED <<featureVars, syncVars, throttleVars, quality>>

Checked(currentId, counted, n, label) ==
    LET after == AfterCheck(currentId, counted, n, label) IN
    /\ countedVideos' = after.countedVideos
    /\ counter' = after.counter
    /\ counterLabel' = after.counterLabel
    /\ shortsStorage' = IF after.saved
                        THEN saveCounterData(shortsStorage, after.countedVideos, after.counter)
                        ELSE shortsStorage

\* the page goes to another Shorts video or leaves the Shorts pages
shortsLocation(videoId) ==
    /\ videoId # url
    /\ url' = videoId
    /\ UNCHANGED shortsVars
    /\ UnchangedByShorts

\* initShortsCounter() up to `await loadCounterData()`
initShortsCounter ==
    /\ shortsLoading < MaxLoads
    /\ shortsLoading' = shortsLoading + 1
    /\ UNCHANGED <<url, countedVideos, counter, counterLabel, shortsStorage, navObserver>>
    /\ UnchangedByShorts

\* the storage answers: loadCounterData() assigns, then initShortsCounter()
\* goes on with setupNavigationObserver() and checkForNewShorts()
loadCounterData ==
    /\ shortsLoading > 0
    /\ shortsLoading' = shortsLoading - 1
    /\ LET data == getLocalStorageData(shortsStorage, NoCounterData) IN
       Checked(url, data.countedVideos, data.counter, counterLabel)
    /\ navObserver' = [observing |-> TRUE, lastUrl |-> url]
    /\ UNCHANGED url
    /\ UnchangedByShorts

\* the throttled observer's callback finds location.href changed
checkForNewShorts ==
    /\ navObserver.observing
    /\ url # navObserver.lastUrl
    /\ navObserver' = [navObserver EXCEPT !.lastUrl = url]
    /\ Checked(url, countedVideos, counter, counterLabel)
    /\ UNCHANGED <<url, shortsLoading>>
    /\ UnchangedByShorts

\* a click on the label
resetCounter ==
    /\ counterLabel # Undefined
    /\ countedVideos' = {}
    /\ counter' = 0
    /\ counterLabel' = updateCounterDisplay(counterLabel, 0)
    /\ shortsStorage' = saveCounterData(shortsStorage, {}, 0)
    /\ UNCHANGED <<url, shortsLoading, navObserver>>
    /\ UnchangedByShorts

\* cleanup() of part_006
shortsCleanup ==
    /\ navObserver.observing \/ counterLabel # Undefined
    /\ navObserver' = [navObserver EXCEPT !.observing = FALSE]
    /\ counterLabel' = Undefined
    /\ UNCHANGED <<url, countedVideos, counter, shortsStorage, shortsLoading>>
    /\ UnchangedByShorts

NextShorts ==
    \/ \E videoId \in Ids \cup {NoId} : shortsLocation(videoId)
    \/ initShortsCounter
    \/ loadCounterData
    \/ checkForNewShorts
    \/ resetCounter
    \/ shortsCleanup

SpecShorts == InitSync /\ [][NextShorts]_vars

(***************************************************************************)
(* initialize() and reinitializeExtension() with their counters.  `ok` is  *)
(* the outcome of indexedDB.open.  After a successful open initialize()    *)
(* runs its first setup, which resets initializationRetries, and           *)
(* setupNavigationObserver(), which installs its listeners and then throws *)
(* at urlObserver.observe: the catch of initialize() arms                  *)
(* setTimeout(initialize, 1000), and the setInterval further down is never *)
(* reached.  A failed open ends in the same catch.                         *)
(***************************************************************************)
Module ==
    [isInitialized |-> isInitialized, db |-> db,
     initializationRetries |-> initializationRetries, initTimers |-> initTimers,
     opens |-> opens, hookSets |-> hookSets, connections |-> connections]

initialize(ok, m) ==
    IF m.isInitialized THEN m
    ELSE IF m.initializationRetries >= MAX_RETRIES THEN m
    ELSE IF ok
    THEN [m EXCEPT !.db = TRUE, !.isInitialized = TRUE,
                   !.initializationRetries = 0,
                   !.opens = 0,
                   !.connections = @ + 1,
                   !.hookSets = @ + 1,
                   !.initTimers = @ + 1]
    ELSE [m EXCEPT !.initializationRetries = @ + 1,
                   !.opens = @ + 1,
                   !.initTimers = @ + 1]

\* db = null without db.close(): the connection stays open unless it was closed
reinitializeExtension(ok, m) ==
    initialize(ok, [m EXCEPT !.isInitialized = FALSE, !.db = FALSE,
                             !.initializationRetries = 0])

Becomes(m) ==
    /\ isInitialized' = m.isInitialized
    /\ db' = m.db
    /\ initializationRetries' = m.initializationRetries
    /\ initTimers' = m.initTimers
    /\ opens' = m.opens
    /\ hookSets' = m.hookSets
    /\ connections' = m.connections
    /\ opens' <= MaxOpens
    /\ hookSets' <= MaxHooks
    /\ initTimers' <= MaxTimers
    /\ UNCHANGED <<store, now, apiVars, watchVars, scanVars>>
    /\ UNCHANGED <<popupVars, lastLookup, lastOp, timerVars, moduleVars, exported, extraVars>>

\* a setTimeout(initialize, 1000) fires
initializeTimer(ok) ==
    /\ initTimers > 0
    /\ Becomes(initialize(ok, [Module EXCEPT !.initTimers = @ - 1]))
    /\ UNCHANGED videoIdCache

\* db.onclose (closed) or db.onerror of the open connection
dbEvent(closed, ok) ==
    /\ db
    /\ Becomes(reinitializeExtension(ok,
                  [Module EXCEPT !.connections = IF closed THEN @ - 1 ELSE @]))
    /\ videoIdCache' = {}

\* a store operation finds !db || !isInitialized and awaits reinitializeExtension()
operationReinitializes(ok) ==
    /\ ~db \/ ~isInitialized
    /\ Becomes(reinitializeExtension(ok, Module))
    /\ videoIdCache' = {}

NextInit ==
    \/ \E ok \in BOOLEAN : initializeTimer(ok)
    \/ \E closed \in BOOLEAN, ok \in BOOLEAN : dbEvent(closed, ok)
    \/ \E ok \in BOOLEAN : operationReinitializes(ok)
    \/ \E u \in {u \in Urls : Len(u) = 3} : getCachedVideoId(u)

InitInit == store = {} /\ now = 0 /\ StoreReady("none") /\ PageIdle

SpecInit == InitInit /\ [][NextInit]_vars

(***************************************************************************)
(* The background's getWatchedVideoCount: a GET_WATCHED_COUNT message to   *)
(* the first YouTube tab, or chrome.storage's lastVideoCount when there is *)
(* no tab.  The message is answered by the listener of the standalone      *)
(* script (part_002), by the listener of content-isolated.js in front of   *)
(* the watched-history module (part_008), or by nobody.                    *)
(***************************************************************************)
Handlers == {"standalone", "isolated", "gone"}

\* response.count, with no test for a missing response
OrZeroMissing(x) == x

\* x || 0
OrZero(x) == IF x = Undefined \/ x = 0 THEN 0 ELSE x

\* the count in the response; Undefined when sendResponse is never called
Response(handler, s, ok) ==
    CASE handler = "standalone" ->
            IF ok THEN Cardinality(getAll(s)) ELSE Undefined
      [] handler = "isolated" ->
            IF "getWatchedCount" \in ModuleExports THEN count(s) ELSE 0
      [] OTHER -> Undefined

getWatchedVideoCount(tab, handler, ok, lastVideoCount) ==
    /\ db /\ isInitialized
    /\ countRequest' =
          IF tab
          THEN [handler |-> handler,
                response |-> Response(handler, store, ok),
                entries |-> count(store),
                resolved |-> OrZero(Response(handler, store, ok))]
          ELSE [handler |-> "none",
                response |-> Undefined,
                entries |-> count(store),
                resolved |-> OrZero(lastVideoCount)]
    /\ UNCHANGED <<storeVars, apiVars, watchVars, scanVars>>
    /\ UNCHANGED <<popupVars, cacheVars, lastOp, timerVars, watchedVideosCache, cleared, initVars, extraVars, exported>>

NextCount ==
    \/ Tick
    \/ \E id \in Ids : addToWatchedHistory(id)
    \/ clearWatchedHistory
    \/ \E tab \in BOOLEAN, handler \in Handlers, ok \in BOOLEAN,
          lastVideoCount \in {Undefined, 0, 2} :
          getWatchedVideoCount(tab, handler, ok, lastVideoCount)

InitCount == store = {} /\ now = 0 /\ StoreReady("none") /\ PageIdle

SpecCount == InitCount /\ [][NextCount]_vars

(***************************************************************************)
(* Playback and lookups on a page whose connection closes and is opened    *)
(* again.                                                                  *)
(***************************************************************************)
NextReinit ==
    \/ \E videoId \in Ids : navigate(videoId, FALSE, 0)
    \/ handleVideoPlayback
    \/ db /\ isInitialized /\ \E t \in 1..MaxTime : timeupdate("main", t)
    \/ \E i \in LSlots : putDone(i)
    \/ \E u \in {u \in Urls : Len(u) = 3} : getCachedVideoId(u)
    \/ dbOnClose
    \/ \E s \in Slots : initDB(s, TRUE)
    \/ \E s \in Slots : Resume(s)

InitReinit == store = {} /\ now = 0 /\ StoreReady("none") /\ PageScanned

SpecReinit == InitReinit /\ [][NextReinit]_vars

(***************************************************************************)
(* The same page with playback events that also arrive while the           *)
(* connection is gone and open attempts that can fail.  Every handler and  *)
(* every callback that is due runs: the page's events are fair, and so is  *)
(* an open attempt that succeeds.                                          *)
(***************************************************************************)
NextLost ==
    \/ \E videoId \in Ids : navigate(videoId, FALSE, 0)
    \/ handleVideoPlayback
    \/ \E t \in 1..MaxTime : timeupdate("main", t)
    \/ \E i \in LSlots : putDone(i)
    \/ dbOnClose
    \/ \E s \in Slots, ok \in BOOLEAN : initDB(s, ok)
    \/ \E s \in Slots : Resume(s)

SpecLost ==
    /\ InitReinit
    /\ [][NextLost]_vars
    /\ WF_vars(handleVideoPlayback)
    /\ WF_vars(\E t \in 1..MaxTime : timeupdate("main", t))
    /\ WF_vars(\E i \in LSlots : putDone(i))
    /\ WF_vars(\E s \in Slots : initDB(s, TRUE))
    /\ WF_vars(\E s \in Slots : Resume(s))

(***************************************************************************)
(* addToWatchedHistory with requests that succeed or fail.                 *)
(***************************************************************************)
NextRetry ==
    \/ Tick
    \/ \E id \in Ids : addToWatchedHistory(id)
    \/ \E id \in Ids : addRejected(id)
    \/ \E s \in Slots, ok \in BOOLEAN : initDB(s, ok)
    \/ \E s \in Slots : Resume(s)

InitRetry == store = {} /\ now = 0 /\ StoreReady("none") /\ PageIdle

SpecRetry == InitRetry /\ [][NextRetry]_vars

(***************************************************************************)
(* Mutations and navigation signals on the home page, the two timers and   *)
(* the scans they start.                                                   *)
(***************************************************************************)
NextDebounce ==
    \/ \E c \in Containers : mutation(c)
    \/ navigationSignal
    \/ pageTimerFires
    \/ navigationTimeoutFires
    \/ secondPassed
    \/ \E s \in SSlots : lookupDone(s)

InitDebounce == store = {} /\ now = 0 /\ StoreReady("none") /\ PageIdle

SpecDebounce == InitDebounce /\ [][NextDebounce]_vars

(***************************************************************************)
(* C1: after addToWatchedHistory wrote an id twice, with any operations on *)
(* other ids in between, the store holds exactly one entry for the id and  *)
(* its timestamp is the one of the later write.                            *)
(***************************************************************************)
PutTwiceLatestWins ==
    \A id \in Ids :
        Len(addLog[id]) = 2 =>
            EntriesFor(store, id) = {Record(id, addLog[id][2])}

PutTwiceWitness ==
    \E id \in Ids :
        /\ Len(addLog[id]) = 2
        /\ addLog[id][1] < addLog[id][2]
        /\ EntriesFor(store, id) = {Record(id, addLog[id][2])}
        /\ \E other \in Ids \ {id} : EntriesFor(store, other) # {}

(***************************************************************************)
(* C2: in every reachable state the store holds at most one entry per      *)
(* video id.                                                               *)
(***************************************************************************)
OneEntryPerId ==
    \A id \in Ids : Cardinality(EntriesFor(store, id)) <= 1

\* the popup's second chunk is due, and the store holds an entry per id: one
\* written by an import or a sync, one written after the clock advanced
OneEntryPerIdWitness ==
    /\ popup.active
    /\ popup.currentIndex > 0
    /\ StoredIds(store) = Ids
    /\ \E r \in store : r.timestamp = NoTimestamp
    /\ \E r \in store : r.timestamp > 0

(***************************************************************************)
(* C3: a timeUpdateHandler calls addToWatchedHistory only when the         *)
(* position has moved forward by 2 seconds or more since the listener was  *)
(* attached.                                                               *)
(***************************************************************************)
WriteOnlyAfterThreshold ==
    \A i \in LSlots :
        listeners[i].pc = "adding" => listeners[i].since >= THRESHOLD

PutAtMostOncePerId == \A id \in Ids : putCalls[id] <= 1

\* two listeners of one id on an element that reached the threshold: one wrote
PutAtMostOnceWitness ==
    \E i, j \in LSlots :
        /\ i # j
        /\ listeners[i].pc = "adding"
        /\ listeners[j].pc = "attached"
        /\ listeners[j].videoId = listeners[i].videoId
        /\ listeners[j].video = listeners[i].video
        /\ putCalls[listeners[i].videoId] = 1

(***************************************************************************)
(* C6: a listener on the main video element calls addToWatchedHistory only *)
(* for the item the page is on: after a navigation from X to Y, playback   *)
(* causes no write for X.                                                  *)
(***************************************************************************)
NoWriteForLeftItem ==
    [][\A i \in LSlots :
          (/\ listeners[i].pc = "attached"
           /\ listeners[i].video = "main"
           /\ listeners'[i].pc = "adding") => listeners[i].videoId = url]_vars

(***************************************************************************)
(* C7: no thumbnail ever carries two markers, and when no scan is          *)
(* suspended every flagged container of a stored id that has a thumbnail   *)
(* carries exactly one.                                                    *)
(***************************************************************************)
ExactlyOneMarker ==
    /\ \A th \in Thumbnails : markers[th] <= 1
    /\ (\A s \in SSlots : scans[s].pc = "free") =>
          \A c \in checked :
              (ContainerVideo(c) \in StoredIds(store) /\ ThumbnailOf(c) # 0) =>
                  markers[ThumbnailOf(c)] = 1

\* two overlapping scans, one of them waiting on a container of a stored id
\* whose thumbnail the other has marked already
ExactlyOneMarkerWitness ==
    \E s, u \in SSlots :
        /\ s # u
        /\ scans[s].pc = "lookup"
        /\ scans[u].pc = "lookup"
        /\ scans[s].isWatched
        /\ markers[ThumbnailOf(scans[s].list[scans[s].i])] = 1

(***************************************************************************)
(* C8: from an empty store, an id the watcher has written has an entry     *)
(* with a timestamp of at most the current time; a scan that comes to a    *)
(* container of a stored id leaves exactly one marker on its thumbnail,    *)
(* and no thumbnail of an id that is not stored carries a marker.          *)
(***************************************************************************)
EndToEndState ==
    /\ \A id \in Ids : putCalls[id] > 0 =>
          \E r \in store : /\ r.videoId = id
                           /\ r.timestamp # NoTimestamp
                           /\ r.timestamp <= now
    /\ \A c \in Containers :
          ThumbnailOf(c) # 0 =>
              /\ markers[ThumbnailOf(c)] <= 1
              /\ markers[ThumbnailOf(c)] = 1 => ContainerVideo(c) \in StoredIds(store)

EndToEndStep ==
    \A s \in SSlots :
        /\ (/\ scans'[s].pc = "lookup"
            /\ scans'[s] # scans[s]) =>
              (scans'[s].isWatched <=>
                 ContainerVideo(scans'[s].list[scans'[s].i]) \in StoredIds(store'))
        /\ (/\ scans[s].pc = "lookup"
            /\ scans'[s] # scans[s]
            /\ scans[s].isWatched
            /\ ThumbnailOf(scans[s].list[scans[s].i]) # 0) =>
              markers'[ThumbnailOf(scans[s].list[scans[s].i])] = 1

EndToEnd == [][EndToEndState /\ EndToEndState' /\ EndToEndStep]_vars

\* "a" was played and written, then scans passed its two nested containers and
\* the container of the unseen "b"
EndToEndWitness ==
    /\ putCalls["a"] = 1
    /\ \E r \in store : r.videoId = "a" /\ r.timestamp > 0 /\ r.timestamp <= now
    /\ {1, 2, 3} \subseteq checked
    /\ \A s \in SSlots : scans[s].pc = "free"
    /\ markers[ThumbnailOf(1)] = 1
    /\ markers[ThumbnailOf(3)] = 0

(***************************************************************************)
(* C9: once the write of the watcher and the scan that follows it are      *)
(* over and no scan is suspended, every flagged container of a stored id   *)
(* that has a thumbnail carries a marker.                                  *)
(***************************************************************************)
Quiescent ==
    /\ \A s \in SSlots : scans[s].pc = "free"
    /\ \A i \in LSlots : listeners[i].pc \notin {"adding", "marking"}

WatchedContainersMarked ==
    Quiescent =>
        \A c \in checked :
            (ContainerVideo(c) \in StoredIds(store) /\ ThumbnailOf(c) # 0) =>
                markers[ThumbnailOf(c)] >= 1

(***************************************************************************)
(* C10: an import returns the number of distinct candidate ids that were   *)
(* not in the store before it.                                             *)
(***************************************************************************)
ImportedIds(imp) ==
    IF imp.kind = "content" THEN CandidateIds(ContentLists[imp.k])
    ELSE IF imp.kind = "popup" THEN SeqToSet(InjectedLists[imp.k])
    ELSE {}

ImportCountsDistinctNew ==
    lastImport.kind # "none" =>
        lastImport.count = Cardinality(ImportedIds(lastImport) \ lastImport.before)

(***************************************************************************)
(* C11: when an import of a file has finished, every line of the file      *)
(* whose trimmed length is 10 to 12 is an id of the store, and every id    *)
(* the import added to the store is such a line, whichever path the file   *)
(* took (txt or csv through the popup, importWatchedHistory, the older     *)
(* popup).                                                                 *)
(***************************************************************************)
InRange(id) == IdLength(id) >= 10 /\ IdLength(id) <= 12

SourceLines(imp) ==
    IF imp.kind = "content" THEN ContentLists[imp.k]
    ELSE IF imp.kind = "legacy" THEN Files[imp.k]
    ELSE IF imp.kind = "popup" /\ imp.k > Len(PopupLists)
         THEN Files[(imp.k - Len(PopupLists) + 1) \div 2]
         ELSE <<>>

Accepted(lines) == {id \in {Trim(lines[i]) : i \in 1..Len(lines)} : InRange(id)}

AcceptsTenToTwelve ==
    (lastImport.kind # "none" /\ ~popup.active) =>
        /\ Accepted(SourceLines(lastImport)) \subseteq StoredIds(store)
        /\ (StoredIds(store) \ lastImport.before) \subseteq Accepted(SourceLines(lastImport))

(***************************************************************************)
(* C12: every record of the store has an id and a numeric timestamp.       *)
(***************************************************************************)
EveryRecordHasTimestamp ==
    \A r \in store : r.videoId # NoId /\ r.timestamp # NoTimestamp

(***************************************************************************)
(* C13: when one put of a chunk fails, the other ids of the chunk are in   *)
(* the store once the chunk is over.                                       *)
(***************************************************************************)
ChunkSurvivesOneFailure ==
    [][(popup.active /\ popup'.active /\ popup'.currentIndex > popup.currentIndex) =>
          LET chunk == Slice(InjectedLists[popup.k], popup.currentIndex, chunkSize)
              failed == (popup'.totalImported - popup.totalImported) + 1
          IN \A j \in 1..Len(chunk) :
                j # failed => chunk[j] \in StoredIds(store')]_vars

(***************************************************************************)
(* C14: the injected import takes the list in consecutive chunks of        *)
(* chunkSize, each id in one chunk; a chunk whose puts all succeed is in   *)
(* the store after it, a failing chunk takes nothing out of the store;     *)
(* the import ends, past the end of the list, with a count of at most the  *)
(* length of the list; and every import that runs does end.                *)
(***************************************************************************)
ChunkStep ==
    (popup.active /\ popup' # popup) =>
        LET videoIds == InjectedLists[popup.k]
            chunk == Slice(videoIds, popup.currentIndex, chunkSize)
        IN
        /\ StoredIds(store) \subseteq StoredIds(store')
        /\ IF popup'.active
           THEN /\ popup.currentIndex < Len(videoIds)
                /\ popup'.currentIndex = popup.currentIndex + chunkSize
                /\ popup'.totalImported - popup.totalImported \in 0..Len(chunk)
                /\ popup'.totalImported - popup.totalImported = Len(chunk) =>
                      SeqToSet(chunk) \subseteq StoredIds(store')
           ELSE /\ popup.currentIndex >= Len(videoIds)
                /\ lastImport'.count = popup.totalImported
                /\ lastImport'.count <= Len(videoIds)

QueryForm(u) ==
    {i \in 2..Len(u) - 1 : u[i] = "v=" /\ u[i - 1] \in {"?", "&"} /\ u[i + 1] \in Ids}

PathForm(u) ==
    {i \in 2..Len(u) - 1 : u[i] = "/shorts/" /\ u[i - 1] = Site /\ u[i + 1] \in Ids}

ExpectedId(u) ==
    IF QueryForm(u) # {} THEN <<u[First(QueryForm(u)) + 1]>>
    ELSE IF PathForm(u) # {} THEN <<u[First(PathForm(u)) + 1]>>
    ELSE Null

ExtractorsReturnTheId ==
    lastLookup.fn \in {"getVideoId", "extractVideoId"} =>
        lastLookup.videoId = ExpectedId(lastLookup.url)

(***************************************************************************)
(* C17: getCachedVideoId(url) returns what getVideoId(url) returns, after  *)
(* any lookups and clears, and the cache holds for a url only the id of    *)
(* that url.                                                               *)
(***************************************************************************)
CacheTransparent ==
    /\ lastLookup.fn = "getCachedVideoId" =>
          lastLookup.videoId = getVideoId(lastLookup.url)
    /\ \A p \in videoIdCache : p[2] = getVideoId(p[1])
    /\ \A p, q \in videoIdCache : p[1] = q[1] => p = q

\* a lookup answered from a cache of several urls, filled again after a clear
CacheTransparentWitness ==
    /\ lastLookup.fn = "getCachedVideoId"
    /\ CacheHas(videoIdCache, lastLookup.url)
    /\ Cardinality(videoIdCache) >= 3
    /\ lastLookup.videoId # Null
    /\ \E p \in videoIdCache : p[2] # lastLookup.videoId
    /\ \E s \in Slots : calls[s].op = "init"

(***************************************************************************)
(* C15: picking a file that parses to no valid id ends with an error       *)
(* status and starts nothing: the store, the injected import and the       *)
(* pending calls are what they were.                                       *)
(***************************************************************************)
NoValidIdsNoWrite ==
    [][(file' # file /\ parse(file'.name, Files[file'.f]).videoIds = <<>>) =>
          /\ status'.type = "error"
          /\ UNCHANGED <<store, popup, calls, lastImport>>]_vars

\* a file without a valid id was picked while the store held an entry
NoValidIdsWitness ==
    /\ file.f = 2
    /\ status = NoValidIds
    /\ store # {}
    /\ ~popup.active

(***************************************************************************)
(* C18: a step in which reinitializeExtension runs leaves videoIdCache and *)
(* processedVideos both empty.                                             *)
(***************************************************************************)
Reinitialized ==
    \E s \in Slots : calls[s].pc # "initDB" /\ calls'[s].pc = "initDB"

ReinitClearsBothCaches ==
    [][Reinitialized => (videoIdCache' = {} /\ processedVideos' = {})]_vars

(***************************************************************************)
(* C19: a store operation is reported as failed only after it was          *)
(* attempted a second time on a reopened connection.                       *)
(***************************************************************************)
RetriedOnceBeforeFailure ==
    lastOp.outcome = "rejected" => lastOp.attempts = 2

(***************************************************************************)
(* C20: of the triggers of one burst, each arriving while a debounce timer *)
(* is pending, at most one scan is started.                                *)
(***************************************************************************)
OneScanPerBurst == burstScans <= 1

(***************************************************************************)
(* C21: a scan comes to look up a container only if no invocation has      *)
(* flagged, and so processed, that container before.                       *)
(***************************************************************************)
ComesTo(s) ==
    /\ scans'[s].pc = "lookup"
    /\ scans[s].pc = "lookup" => (scans'[s].i # scans[s].i \/ scans'[s].list # scans[s].list)

EachContainerOneInvocation ==
    [][\A s \in SSlots : ComesTo(s) => scans'[s].list[scans'[s].i] \notin checked]_vars

(***************************************************************************)
(* C22: a failed lookup does not end the scan: when a scan ends, every     *)
(* container it had selected has been processed (flagged), and the         *)
(* listener that awaits the scan is released.                              *)
(***************************************************************************)
ScanEnds(s) == scans[s].pc = "lookup" /\ scans'[s].pc = "free"

ScanSurvivesFailure ==
    [][\A s \in SSlots : ScanEnds(s) =>
          /\ SeqToSet(scans[s].list) \subseteq checked'
          /\ scans[s].owner # 0 => listeners'[scans[s].owner] = FreeListener]_vars

\* a scan is past a container whose lookup failed: the container's video is
\* stored, yet its thumbnail has no marker, and the scan went on to the next
ScanSurvivesFailureWitness ==
    \E s \in SSlots :
        /\ scans[s].pc = "lookup"
        /\ scans[s].i >= 2
        /\ \E j \in 1..(scans[s].i - 1) :
              /\ isVideoWatched(store, ContainerVideo(scans[s].list[j]))
              /\ ThumbnailOf(scans[s].list[j]) # 0
              /\ markers[ThumbnailOf(scans[s].list[j])] = 0

(***************************************************************************)
(* C23: a write of addToWatchedHistory for an id whose entry an earlier    *)
(* write of addToWatchedHistory made leaves the entry, and so its          *)
(* timestamp, as it was.                                                   *)
(***************************************************************************)
WatcherWrote(id) == addLog'[id] # addLog[id] /\ addLog'[id] # <<>>

TimestampOfFirstWrite ==
    [][\A id \in Ids :
          (WatcherWrote(id) /\ addLog[id] # <<>> /\ EntriesFor(store, id) # {}) =>
              EntriesFor(store', id) = EntriesFor(store, id)]_vars

(***************************************************************************)
(* C24: the id of an entry leaves the store only in a step that empties    *)
(* the store, the clear: no put, import, sync, failing chunk or            *)
(* reinitialization takes an entry out.                                    *)
(***************************************************************************)
EntriesStayUntilClear ==
    [][StoredIds(store) \subseteq StoredIds(store') \/ store' = {}]_vars

\* entries from an import and from a later put or sync are there while the
\* connection is closed and being opened again
EntriesStayWitness ==
    /\ ~db
    /\ \E s \in Slots : calls[s].op = "init"
    /\ StoredIds(store) = Ids
    /\ \E r \in store : r.timestamp = NoTimestamp
    /\ \E r \in store : r.timestamp >= 1

(***************************************************************************)
(* C25: after a clear that succeeded and until the next put, count is 0,   *)
(* getAll is empty and isVideoWatched is false for every id, with the      *)
(* module that caches the watched ids and with the one that does not.      *)
(***************************************************************************)
ClearedLooksEmpty ==
    cleared.done =>
        /\ count(store) = 0
        /\ getAll(store) = {}
        /\ \A id \in Ids : ~moduleIsWatched(watchedVideosCache, store, id)
        /\ \A id \in Ids : ~isVideoWatched(store, id)

\* the clear emptied a cache that held every id
ClearedLooksEmptyWitness ==
    /\ cleared.done
    /\ cleared.cached = Ids
    /\ now > 0

(***************************************************************************)
(* C26: a request for the watched count resolves to a non-negative         *)
(* integer, also with no tab, no receiver or no response.                  *)
(***************************************************************************)
CountResolvesToNumber == countRequest.resolved \in Nat

\* the listener never answered although the store has entries
CountResolvesWitness ==
    /\ countRequest.handler = "standalone"
    /\ countRequest.response = Undefined
    /\ countRequest.entries > 0
    /\ countRequest.resolved = 0

(***************************************************************************)
(* C28: a response to GET_WATCHED_COUNT carries the number of entries the  *)
(* store held when it was answered, with either listener.                  *)
(***************************************************************************)
CountIsStoreCount ==
    countRequest.response # Undefined => countRequest.response = countRequest.entries

(***************************************************************************)
(* C27: importing an exported file into an empty store gives the store     *)
(* the ids the exported store had.                                         *)
(***************************************************************************)
ExportedIds == {Trim(exported.lines[i]) : i \in 1..Len(exported.lines)}

ExportImportRoundTrip ==
    [][(store = {} /\ ~exported.imported /\ exported'.imported) =>
          StoredIds(store') = ExportedIds]_vars

(***************************************************************************)
(* C29: indexedDB.open is not called again after MAX_RETRIES calls in a    *)
(* row have failed.                                                        *)
(***************************************************************************)
OpensBounded == opens <= MAX_RETRIES

(***************************************************************************)
(* C30: however often reinitializeExtension has run, at most one set of    *)
(* navigation hooks is installed and at most one connection is open.       *)
(***************************************************************************)
OneHookSetOneConnection == hookSets <= 1 /\ connections <= 1

(***************************************************************************)
(* C31: an id that the playback watcher has put into processedVideos is    *)
(* in the store at that time or later.                                     *)
(***************************************************************************)
CountedIsStoredLater ==
    \A id \in Ids : [](id \in processedVideos => <>(id \in StoredIds(store)))

(***************************************************************************)
(* C32: a container carries a watched marker only if its video is in the   *)
(* store.  Stated for the pages where a scan has nothing left to do (no    *)
(* scan runs, every container of the document is flagged): a scan that     *)
(* follows finds no container and changes nothing.                         *)
(***************************************************************************)
Scanned == present \subseteq checked /\ \A s \in SSlots : scans[s].pc = "free"

MarkerOnlyIfStored ==
    Scanned =>
        \A c \in present :
            (ThumbnailOf(c) # 0 /\ markers[ThumbnailOf(c)] > 0)
                => ContainerVideo(c) \in StoredIds(store)

(***************************************************************************)
(* C33: the promise of updateWatchedHistoryFromSync is settled once the    *)
(* callbacks of its requests have run, and when it is resolved every video *)
(* of the list is in the store.                                            *)
(***************************************************************************)
SyncSettles ==
    lastOp.op = "sync" =>
        /\ lastOp.outcome \in {"resolved", "rejected"}
        /\ lastOp.outcome = "resolved" =>
              {v.videoId : v \in SeqToSet(lastOp.videos)} \subseteq StoredIds(store)

TrackedWhileEnabled ==
    [][\A id \in Ids :
          (historyEnabled /\ id \in trackTimers /\ id \notin trackTimers')
              => id \in StoredIds(store')]_vars

(***************************************************************************)
(* C36: at most one run of performDriveSync is under way (a call made     *)
(* during a run starts none), and syncInProgress is false whenever no run  *)
(* is under way.                                                           *)
(***************************************************************************)
Running == {r \in Runs : syncRuns[r] # "idle"}

OneSyncAtATime ==
    /\ Cardinality(Running) <= 1
    /\ Running = {} => ~syncInProgress

\* a call returned at the guard while the run was uploading
OneSyncWitness ==
    /\ syncReturned
    /\ \E r \in Runs : syncRuns[r] = "uploadToGoogleDrive"

Higher(q, p) == IndexOf(q) # 0 /\ IndexOf(p) # 0 /\ IndexOf(q) < IndexOf(p)

\* the levels of QUALITY_ORDER the player lists at or below the preferred one
Within(p, a) ==
    {i \in 1..Len(QUALITY_ORDER) :
        IndexOf(p) # 0 /\ i >= IndexOf(p) /\ includes(a, QUALITY_ORDER[i])}

Highest(S) == QUALITY_ORDER[CHOOSE i \in S : \A j \in S : i <= j]

AppliedWithinLimit ==
    LET p == quality.preferredQuality
        a == quality.availableQualities
    IN
    quality.applied # "none" =>
        /\ includes(a, p) => quality.applied = p
        /\ (~includes(a, p) /\ Within(p, a) # {}) => quality.applied = Highest(Within(p, a))
        /\ ~Higher(quality.applied, p)

(***************************************************************************)
(* C38, amended: when the player lists neither the preferred level nor a   *)
(* level below it (or the preferred level is not one of QUALITY_ORDER),    *)
(* the first entry of the player's list is applied, which may be higher    *)
(* than the preferred level; in no other case is a higher level applied.   *)
(***************************************************************************)
AppliedOrFirstListed ==
    LET p == quality.preferredQuality
        a == quality.availableQualities
    IN
    quality.applied # "none" =>
        /\ includes(a, p) => quality.applied = p
        /\ (~includes(a, p) /\ Within(p, a) # {}) => quality.applied = Highest(Within(p, a))
        /\ (~includes(a, p) /\ Within(p, a) = {}) => quality.applied = a[1]
        /\ Higher(quality.applied, p) => (~includes(a, p) /\ Within(p, a) = {})

\* a level above the preferred one was applied
AppliedOrFirstListedWitness ==
    /\ quality.applied # "none"
    /\ Higher(quality.applied, quality.preferredQuality)

(***************************************************************************)
(* C39: a Shorts id is counted at most once: the counter, and the number   *)
(* the label shows when there is a label, equal the number of ids in       *)
(* countedVideos.                                                          *)
(***************************************************************************)
CounterIsCountedSize ==
    /\ counter = Cardinality(countedVideos)
    /\ counterLabel # Undefined => counterLabel = counter

\* both ids are counted and the page is back on one of them, checked again
CounterWitness ==
    /\ countedVideos = Ids
    /\ counterLabel = 2
    /\ navObserver.observing
    /\ navObserver.lastUrl = url
    /\ shortsLoading = 0

====
